---- MODULE Spec2Model ----
(***************************************************************************)
(* Local graph staging store (InternalDB, a SQLite node/edge table pair)   *)
(* and its two-pass upsert protocol, modelled statement by statement.      *)
(*                                                                         *)
(* A Python dict is a sequence of <<key, value>> pairs in insertion order. *)
(* The JSON text stored in nodes.data is the token sequence                *)
(* <<k1, v1, k2, v2, ...>> that json.dumps(..., sort_keys=True) emits.     *)
(* A connection reads the committed tables unless it is inside its own     *)
(* transaction, in which case it reads its private working copy (WAL       *)
(* snapshot isolation, one writer at a time).                              *)
(*                                                                         *)
(* GraphStorageHandler.store_subgraph is modelled step by step over the    *)
(* same tables: root lookup, breadth-first traversal, remote node upserts  *)
(* and batched links.  The remote graph store is a set of contexts keyed   *)
(* by node_type/key and a set of typed links; any remote operation may     *)
(* fail.  Spec runs upsert_payloads callers, SyncSpec runs store_subgraph  *)
(* calls on a store that earlier batches filled.  ZeroSpec is Spec with    *)
(* every retry count, MixSpec runs store_subgraph beside one writer, and   *)
(* StepSpec runs store_graph_step, which owns the handler and its client.  *)
(***************************************************************************)
EXTENDS Integers, Sequences, FiniteSets, TLC

\* ------------------------------------------------------------------ bounds
MaxRetries == 2
MaxFaults == 1
MaxClock == 1
MaxRuns == 2
MaxRemoteFaults == 1
MaxSteps == 2

\* ------------------------------------------------------- program constants
initial_delay == 1

\* The callers of upsert_payloads: each submits one batch on its own connection,
\* at any time relative to the other.
Procs == {1, 2}

\* Retry counts InternalDB is constructed with (positive; the default is 3).
RetryCounts == 1..MaxRetries

\* ------------------------------------------------------------ Python dicts
\* Alphabetical order of the attribute keys, as str comparison orders them.
KeyOrder == <<"hq", "sector">>

KeyRank(k) == CHOOSE i \in 1..Len(KeyOrder) : KeyOrder[i] = k

HasKey(d, k) == \E i \in 1..Len(d) : d[i][1] = k

GetVal(d, k) == d[CHOOSE i \in 1..Len(d) : d[i][1] = k][2]

DictKeys(d) == {d[i][1] : i \in 1..Len(d)}

\* Mutant of DictMerge: the stored value wins on key collision.
DictMerge_ExistingWins(existing_data, incoming) ==
    existing_data \o SelectSeq(incoming, LAMBDA kv : ~HasKey(existing_data, kv[1]))

\* {**existing_data, **payload.data}: existing keys keep their position and
\* take the incoming value on collision; new incoming keys are appended.
DictMerge(existing_data, incoming) ==
    LET upd == [i \in 1..Len(existing_data) |->
                   IF HasKey(incoming, existing_data[i][1])
                   THEN <<existing_data[i][1], GetVal(incoming, existing_data[i][1])>>
                   ELSE existing_data[i]]
        new == SelectSeq(incoming, LAMBDA kv : ~HasKey(existing_data, kv[1]))
    IN  upd \o new

RECURSIVE InsertSorted(_, _)
InsertSorted(kv, s) ==
    IF s = <<>> THEN <<kv>>
    ELSE IF KeyRank(kv[1]) <= KeyRank(Head(s)[1]) THEN <<kv>> \o s
    ELSE <<Head(s)>> \o InsertSorted(kv, Tail(s))

RECURSIVE SortByKey(_)
SortByKey(d) ==
    IF d = <<>> THEN <<>> ELSE InsertSorted(Head(d), SortByKey(Tail(d)))

RECURSIVE Flatten(_)
Flatten(d) ==
    IF d = <<>> THEN <<>> ELSE <<Head(d)[1], Head(d)[2]>> \o Flatten(Tail(d))

\* json.dumps(merged_data, sort_keys=True)
json_dumps(d) == Flatten(SortByKey(d))

\* json.loads(row["data"]): the dict lists the keys in text order.
json_loads(text) == [i \in 1..(Len(text) \div 2) |-> <<text[2 * i - 1], text[2 * i]>>]

\* ---------------------------------------------------------------- payloads
EdgePayload(tt, tk, et) == [to_node_type |-> tt, to_lookup_key |-> tk, edge_type |-> et]

NodePayload(nt, st, lk, d, es) ==
    [node_type |-> nt, sub_type |-> st, lookup_key |-> lk, data |-> d, edges |-> es]

\* Payloads of the callers' batches.
PlA0 == NodePayload("Org", "Company", "a", <<<<"sector", "s">>, <<"hq", "w">>>>, <<>>)
PlA1 == NodePayload("Org", "Company", "a", <<<<"hq", "x">>>>, <<>>)
PlA3 == NodePayload("Org", "Company", "a", <<<<"hq", "z">>>>, <<>>)
PlA2 == NodePayload("Org", "Unit", "a", <<<<"sector", "y">>>>,
                    <<EdgePayload("Org", "b", "owns")>>)
PlB1 == NodePayload("Org", "Company", "b", <<<<"hq", "x">>>>,
                    <<EdgePayload("Org", "a", "owns"), EdgePayload("Org", "c", "owns"),
                      EdgePayload("Org", "a", "supplies"), EdgePayload("Org", "a", "owns")>>)
PlP1 == NodePayload("Prod", "Item", "a", <<>>, <<EdgePayload("Prod", "a", "owns")>>)

\* Batches the callers submit.
Batches == { <<PlA1>>, <<PlA2>>, <<PlA3>>, <<PlB1>>, <<PlP1>>, <<PlA2, PlB1>> }

\* ------------------------------------------------------------- the tables
None == 0

Max(S) == CHOOSE x \in S : \A y \in S : y <= x

\* id INTEGER PRIMARY KEY AUTOINCREMENT: one more than the largest id of the
\* table (rows are never deleted; a rollback also restores the sequence).
NextId(rows) == IF rows = {} THEN 1 ELSE Max({n.id : n \in rows}) + 1

\* SELECT ... FROM nodes WHERE node_type = ? AND lookup_key = ?
SelectNode(db, nt, lk) == {n \in db.nodes : n.node_type = nt /\ n.lookup_key = lk}

\* fetchone(): the row of lowest rowid.
FetchOne(rows) == CHOOSE n \in rows : \A m \in rows : n.id <= m.id

\* Mutant of _get_node_id: the lookup leaves out node_type.
_get_node_id_ByKeyOnly(db, nt, lk) ==
    IF {n \in db.nodes : n.lookup_key = lk} = {} THEN None
    ELSE FetchOne({n \in db.nodes : n.lookup_key = lk}).id

_get_node_id(db, nt, lk) ==
    IF SelectNode(db, nt, lk) = {} THEN None ELSE FetchOne(SelectNode(db, nt, lk)).id

\* Mutant of trg_nodes_after_update: the trigger without its WHEN clause.
trg_nodes_after_update_Always(old, text, t) ==
    [old EXCEPT !.data = text, !.updated_at = t]

\* trg_nodes_after_update: WHEN OLD.data <> NEW.data, updated_at = CURRENT_TIMESTAMP
trg_nodes_after_update(old, text, t) ==
    [old EXCEPT !.data = text, !.updated_at = IF old.data # text THEN t ELSE @]

\* Mutant of UpsertNode: a plain INSERT into a table without the UNIQUE key.
UpsertNode_PlainInsert(db, pl, text, t) ==
    [db EXCEPT !.nodes = db.nodes \cup
        {[id |-> NextId(db.nodes), node_type |-> pl.node_type,
          sub_type |-> pl.sub_type, lookup_key |-> pl.lookup_key,
          data |-> text, created_at |-> t, updated_at |-> t]}]

\* Mutant of UpsertNode: ON CONFLICT DO NOTHING, the stored row is kept as it is.
UpsertNode_DoNothing(db, pl, text, t) ==
    IF SelectNode(db, pl.node_type, pl.lookup_key) # {}
    THEN db
    ELSE [db EXCEPT !.nodes = db.nodes \cup
             {[id |-> NextId(db.nodes), node_type |-> pl.node_type,
               sub_type |-> pl.sub_type, lookup_key |-> pl.lookup_key,
               data |-> text, created_at |-> t, updated_at |-> t]}]

\* Mutant of UpsertNode: a created node is linked at once from the stored nodes
\* of its type, as if the edges skipped earlier had been kept pending.
UpsertNode_LinksPending(db, pl, text, t) ==
    LET hit == SelectNode(db, pl.node_type, pl.lookup_key)
        from == {n \in db.nodes : n.node_type = pl.node_type}
    IN  IF hit # {}
        THEN [db EXCEPT !.nodes = (db.nodes \ hit)
                                  \cup {trg_nodes_after_update(n, text, t) : n \in hit}]
        ELSE [nodes |-> db.nodes \cup
                 {[id |-> NextId(db.nodes), node_type |-> pl.node_type,
                   sub_type |-> pl.sub_type, lookup_key |-> pl.lookup_key,
                   data |-> text, created_at |-> t, updated_at |-> t]},
              edges |-> IF from = {} THEN db.edges
                        ELSE Append(db.edges,
                                [from_id |-> FetchOne(from).id, to_id |-> NextId(db.nodes),
                                 edge_type |-> "owns", created_at |-> t])]

\* Mutant of UpsertNode: INSERT OR REPLACE, the stored row gives way to a new one.
UpsertNode_Replace(db, pl, text, t) ==
    [db EXCEPT !.nodes = (db.nodes \ SelectNode(db, pl.node_type, pl.lookup_key)) \cup
        {[id |-> NextId(db.nodes), node_type |-> pl.node_type,
          sub_type |-> pl.sub_type, lookup_key |-> pl.lookup_key,
          data |-> text, created_at |-> t, updated_at |-> t]}]

\* INSERT INTO nodes (...) VALUES (...) ON CONFLICT(node_type, lookup_key)
\* DO UPDATE SET data = excluded.data
UpsertNode(db, pl, text, t) ==
    LET hit == SelectNode(db, pl.node_type, pl.lookup_key)
    IN  IF hit # {}
        THEN [db EXCEPT !.nodes = (db.nodes \ hit)
                                  \cup {trg_nodes_after_update(n, text, t) : n \in hit}]
        ELSE [db EXCEPT !.nodes = db.nodes \cup
                 {[id |-> NextId(db.nodes), node_type |-> pl.node_type,
                   sub_type |-> pl.sub_type, lookup_key |-> pl.lookup_key,
                   data |-> text, created_at |-> t, updated_at |-> t]}]

\* Mutant of InsertEdge: INSERT without OR IGNORE into a table without the
\* UNIQUE key.
InsertEdge_NoIgnore(db, f, to, et, t) ==
    [db EXCEPT !.edges = Append(db.edges,
        [from_id |-> f, to_id |-> to, edge_type |-> et, created_at |-> t])]

\* Mutant of InsertEdge: the UNIQUE key of edges leaves out edge_type.
InsertEdge_KeyWithoutType(db, f, to, et, t) ==
    IF \E i \in 1..Len(db.edges) : db.edges[i].from_id = f /\ db.edges[i].to_id = to
    THEN db
    ELSE [db EXCEPT !.edges = Append(db.edges,
             [from_id |-> f, to_id |-> to, edge_type |-> et, created_at |-> t])]

\* INSERT OR IGNORE INTO edges (from_id, to_id, edge_type) VALUES (?, ?, ?)
InsertEdge(db, f, to, et, t) ==
    IF \E i \in 1..Len(db.edges) :
          /\ db.edges[i].from_id = f
          /\ db.edges[i].to_id = to
          /\ db.edges[i].edge_type = et
    THEN db
    ELSE [db EXCEPT !.edges = Append(db.edges,
             [from_id |-> f, to_id |-> to, edge_type |-> et, created_at |-> t])]

\* Lines 132-137 of upsert_payloads: the map written for one payload.
MergedData(db, pl) ==
    IF SelectNode(db, pl.node_type, pl.lookup_key) # {}
    THEN DictMerge(json_loads(FetchOne(SelectNode(db, pl.node_type, pl.lookup_key)).data),
                   pl.data)
    ELSE pl.data

EmptyDb == [nodes |-> {}, edges |-> <<>>]

\* Pass 1 (lines 126-153) run to its end on db at time t, payloads i.. of b.
RECURSIVE NodePass(_, _, _, _)
NodePass(db, b, i, t) ==
    IF i > Len(b) THEN db
    ELSE NodePass(UpsertNode(db, b[i], json_dumps(MergedData(db, b[i])), t), b, i + 1, t)

\* Pass 2 (lines 156-174) run to its end on db at time t, from payload i on.
RECURSIVE EdgesOf(_, _, _, _, _)
EdgesOf(db, pl, fid, j, t) ==
    IF j > Len(pl.edges) THEN db
    ELSE LET tid == _get_node_id(db, pl.edges[j].to_node_type, pl.edges[j].to_lookup_key)
         IN  EdgesOf(IF tid # None THEN InsertEdge(db, fid, tid, pl.edges[j].edge_type, t)
                     ELSE db,
                     pl, fid, j + 1, t)

RECURSIVE EdgePass(_, _, _, _)
EdgePass(db, b, i, t) ==
    IF i > Len(b) THEN db
    ELSE LET fid == _get_node_id(db, b[i].node_type, b[i].lookup_key)
         IN  EdgePass(IF b[i].edges = <<>> \/ fid = None THEN db
                      ELSE EdgesOf(db, b[i], fid, 1, t),
                      b, i + 1, t)

\* upsert_payloads(b) run alone and without error on db at time t.
upsert_payloads(db, b, t) == EdgePass(NodePass(db, b, 1, t), b, 1, t)

\* The database file outlives the process: what earlier runs left in it.
SeedBatches == { <<>>, <<PlA0>>, <<PlB1>> }

SeedDbs == {upsert_payloads(EmptyDb, b, 0) : b \in SeedBatches}

\* ------------------------------------------------------------------- state
VARIABLES
    nodes, edges,        \* the committed tables
    writeLock,           \* connection holding the write lock, 0 when free
    now,                 \* CURRENT_TIMESTAMP
    retries,             \* InternalDB.retries
    pc, payloads, idx, eidx, merged_data, attempt, delay, from_id, to_id,
    txn,                 \* per connection: open transaction and its working copy
    result,              \* outcome of the current call
    pre, base, post, doneBefore, wlog, sleeps, faults, commitLog

tables == <<nodes, edges>>
locals == <<payloads, idx, eidx, merged_data, attempt, delay, from_id, to_id>>
history == <<pre, base, post, doneBefore, wlog, sleeps, faults, commitLog>>

\* store_subgraph and the remote graph store
VARIABLES
    remote,              \* the remote store: its contexts and its links
    run,                 \* number of store_subgraph calls begun
    spc,                 \* position of the store_subgraph call
    lookup_key, root, to_visit, visited, bfs_nodes, bfs_edges, nid,
    nidx, existing, sql_to_ctx, links_by_rel, ridx,
    outcome,             \* what the call returned or raised
    rfaults,             \* remote operations that have failed
    rlog,                \* operations of the current call, in order
    runs                 \* the finished calls

sync == <<remote, run, spc, lookup_key, root, to_visit, visited, bfs_nodes, bfs_edges, nid,
          nidx, existing, sql_to_ctx, links_by_rel, ridx, outcome, rfaults, rlog, runs>>

staging == <<nodes, edges, writeLock, now, retries, pc, payloads, idx, eidx, merged_data,
             attempt, delay, from_id, to_id, txn, result, pre, base, post, doneBefore,
             wlog, sleeps, faults, commitLog>>

\* store_graph_step, the caller that owns the GraphStorageHandler
VARIABLES
    client,              \* the handler's GraphClient: "none", "open" or "closed"
    cpc,                 \* position of store_graph_step
    steps,               \* number of store_graph_step calls begun
    runAt,               \* store_subgraph calls begun when the step began
    canonical_name,      \* the step's additional_data("canonical_name")
    exits                \* the finished steps: how each ended, and its client then

caller == <<client, cpc, steps, runAt, canonical_name, exits>>

vars == <<staging, sync, caller>>

Committed == [nodes |-> nodes, edges |-> edges]

NoTxn == [active |-> FALSE, nodes |-> {}, edges |-> <<>>]

\* Mutant of View: outside a transaction the connection keeps reading the
\* snapshot it saw when the call began.
View_StaleSnapshot(p) ==
    IF txn[p].active THEN [nodes |-> txn[p].nodes, edges |-> txn[p].edges] ELSE pre[p]

\* What connection p reads.
View(p) == IF txn[p].active THEN [nodes |-> txn[p].nodes, edges |-> txn[p].edges]
           ELSE Committed

NoHandle == [node_type |-> "", key |-> ""]

NoRow == [id |-> None]

\* No store_subgraph call has been made, no handler constructed, and the
\* remote store is empty.
NoSync ==
    /\ remote = [contexts |-> {}, links |-> {}]
    /\ run = 0
    /\ spc = "idle"
    /\ lookup_key = ""
    /\ root = NoRow
    /\ to_visit = <<>>
    /\ visited = {}
    /\ bfs_nodes = <<>>
    /\ bfs_edges = <<>>
    /\ nid = None
    /\ nidx = 1
    /\ existing = NoHandle
    /\ sql_to_ctx = <<>>
    /\ links_by_rel = <<>>
    /\ ridx = 1
    /\ outcome = "none"
    /\ rfaults = 0
    /\ rlog = <<>>
    /\ runs = <<>>
    /\ client = "none"
    /\ cpc = "idle"
    /\ steps = 0
    /\ runAt = 0
    /\ canonical_name = ""
    /\ exits = <<>>

Init ==
    /\ \E db \in SeedDbs : nodes = db.nodes /\ edges = db.edges
    /\ writeLock = 0
    /\ now = 0
    /\ retries \in RetryCounts
    /\ pc = [p \in Procs |-> "idle"]
    /\ payloads = [p \in Procs |-> <<>>]
    /\ idx = [p \in Procs |-> 1]
    /\ eidx = [p \in Procs |-> 1]
    /\ merged_data = [p \in Procs |-> <<>>]
    /\ attempt = [p \in Procs |-> 0]
    /\ delay = [p \in Procs |-> initial_delay]
    /\ from_id = [p \in Procs |-> None]
    /\ to_id = [p \in Procs |-> None]
    /\ txn = [p \in Procs |-> NoTxn]
    /\ result = [p \in Procs |-> "none"]
    /\ pre = [p \in Procs |-> EmptyDb]
    /\ base = [p \in Procs |-> EmptyDb]
    /\ post = [p \in Procs |-> EmptyDb]
    /\ doneBefore = [p \in Procs |-> {}]
    /\ wlog = [p \in Procs |-> <<>>]
    /\ sleeps = [p \in Procs |-> <<>>]
    /\ faults = 0
    /\ commitLog = <<>>
    /\ NoSync

\* ----------------------------------------------------------------- actions
Active(p) == pc[p] \notin {"idle", "done"}

Executing(p) == pc[p] \in {"exec_node", "exec_edge"}

Raised(p) == result[p] \in {"locked", "error"}

\* Mutant of NextEdge: the edge is written without the "if to_id" test.
RECURSIVE NextEdge_NoTargetTest(_, _, _, _)
NextEdge_NoTargetTest(db, b, i, j) ==
    IF i > Len(b)
    THEN [i |-> i, j |-> 1, from_id |-> None, to_id |-> None]
    ELSE LET fid == _get_node_id(db, b[i].node_type, b[i].lookup_key)
         IN  IF b[i].edges = <<>> \/ fid = None \/ j > Len(b[i].edges)
             THEN NextEdge_NoTargetTest(db, b, i + 1, 1)
             ELSE [i |-> i, j |-> j, from_id |-> fid,
                   to_id |-> _get_node_id(db, b[i].edges[j].to_node_type,
                                          b[i].edges[j].to_lookup_key)]

\* Mutant of NextEdge: one pass, a payload's edges see only the nodes of the
\* payloads up to it.
RECURSIVE NextEdge_OnePass(_, _, _, _)
NextEdge_OnePass(db, b, i, j) ==
    IF i > Len(b)
    THEN [i |-> i, j |-> 1, from_id |-> None, to_id |-> None]
    ELSE LET fid == _get_node_id(db, b[i].node_type, b[i].lookup_key)
         IN  IF b[i].edges = <<>> \/ fid = None \/ j > Len(b[i].edges)
             THEN NextEdge_OnePass(db, b, i + 1, 1)
             ELSE LET later == \E k \in (i + 1)..Len(b) :
                                  /\ b[k].node_type = b[i].edges[j].to_node_type
                                  /\ b[k].lookup_key = b[i].edges[j].to_lookup_key
                      tid == IF later THEN None
                             ELSE _get_node_id(db, b[i].edges[j].to_node_type,
                                               b[i].edges[j].to_lookup_key)
                  IN  IF tid # None
                      THEN [i |-> i, j |-> j, from_id |-> fid, to_id |-> tid]
                      ELSE NextEdge_OnePass(db, b, i, j + 1)

\* Pass 2, lines 156-169, from loop position (i, j) on: the first declared
\* edge whose from_id and to_id both resolve, or i > Len(b) when the loops end.
RECURSIVE NextEdge(_, _, _, _)
NextEdge(db, b, i, j) ==
    IF i > Len(b)
    THEN [i |-> i, j |-> 1, from_id |-> None, to_id |-> None]
    ELSE LET fid == _get_node_id(db, b[i].node_type, b[i].lookup_key)
         IN  IF b[i].edges = <<>> \/ fid = None \/ j > Len(b[i].edges)
             THEN NextEdge(db, b, i + 1, 1)
             ELSE LET tid == _get_node_id(db, b[i].edges[j].to_node_type,
                                          b[i].edges[j].to_lookup_key)
                  IN  IF tid # None
                      THEN [i |-> i, j |-> j, from_id |-> fid, to_id |-> tid]
                      ELSE NextEdge(db, b, i, j + 1)

\* upsert_payloads is entered on a fresh connection (no transaction yet).
\* Connections are interchangeable: the first call takes the lowest one.
Begin(p, b) ==
    /\ pc[p] = "idle"
    /\ \A q \in Procs : pc[q] = "idle" => p <= q
    /\ payloads' = [payloads EXCEPT ![p] = b]
    /\ idx' = [idx EXCEPT ![p] = 1]
    /\ eidx' = [eidx EXCEPT ![p] = 1]
    /\ pc' = [pc EXCEPT ![p] = IF Len(b) > 0 THEN "select" ELSE "commit"]
    /\ pre' = [pre EXCEPT ![p] = Committed]
    /\ base' = [base EXCEPT ![p] = Committed]
    /\ doneBefore' = [doneBefore EXCEPT ![p] = {q \in Procs : pc[q] = "done"}]
    /\ UNCHANGED <<tables, writeLock, now, retries, merged_data, attempt, delay,
                   from_id, to_id, txn, result, post, wlog, sleeps, faults, commitLog>>
    /\ UNCHANGED sync
    /\ UNCHANGED caller

\* Pass 1, lines 127-137: read the existing row and merge.
SelectExisting(p) ==
    /\ pc[p] = "select"
    /\ merged_data' = [merged_data EXCEPT ![p] = MergedData(View(p), payloads[p][idx[p]])]
    /\ attempt' = [attempt EXCEPT ![p] = 0]
    /\ delay' = [delay EXCEPT ![p] = initial_delay]
    /\ sleeps' = [sleeps EXCEPT ![p] = <<>>]
    /\ pc' = [pc EXCEPT ![p] = "exec_node"]
    /\ UNCHANGED <<tables, writeLock, now, retries, payloads, idx, eidx, from_id, to_id,
                   txn, result, pre, base, post, doneBefore, wlog, faults, commitLog>>
    /\ UNCHANGED sync
    /\ UNCHANGED caller

\* The statement _execute_with_retry is running for p, applied to a database.
ApplyStatement(p, db) ==
    IF pc[p] = "exec_node"
    THEN UpsertNode(db, payloads[p][idx[p]], json_dumps(merged_data[p]), now)
    ELSE InsertEdge(db, from_id[p], to_id[p],
                    payloads[p][idx[p]].edges[eidx[p]].edge_type, now)

\* Where pass 2 resumes once the statement at pc[p] has returned.
Resume(p, db) ==
    IF pc[p] = "exec_node"
    THEN NextEdge(db, payloads[p], 1, 1)
    ELSE NextEdge(db, payloads[p], idx[p], eidx[p] + 1)

\* The statement at pc[p] has returned: next payload of pass 1, else the next
\* edge of pass 2, else commit.
Proceed(p, db) ==
    IF pc[p] = "exec_node" /\ idx[p] < Len(payloads[p])
    THEN /\ idx' = [idx EXCEPT ![p] = idx[p] + 1]
         /\ pc' = [pc EXCEPT ![p] = "select"]
         /\ UNCHANGED <<eidx, from_id, to_id, attempt, delay, sleeps>>
    ELSE LET nx == Resume(p, db)
         IN  /\ idx' = [idx EXCEPT ![p] = nx.i]
             /\ eidx' = [eidx EXCEPT ![p] = nx.j]
             /\ from_id' = [from_id EXCEPT ![p] = nx.from_id]
             /\ to_id' = [to_id EXCEPT ![p] = nx.to_id]
             /\ attempt' = [attempt EXCEPT ![p] = 0]
             /\ delay' = [delay EXCEPT ![p] = initial_delay]
             /\ sleeps' = [sleeps EXCEPT ![p] = <<>>]
             /\ pc' = [pc EXCEPT ![p] = IF nx.i > Len(payloads[p]) THEN "commit"
                                        ELSE "exec_edge"]

\* conn.execute succeeded: the first write opens the transaction and takes
\* the write lock.
ExecOk(p) ==
    /\ Executing(p)
    /\ attempt[p] < retries
    /\ writeLock \in {0, p}
    /\ LET db == ApplyStatement(p, View(p))
       IN  /\ txn' = [txn EXCEPT ![p] = [active |-> TRUE, nodes |-> db.nodes,
                                         edges |-> db.edges]]
           /\ Proceed(p, db)
    /\ writeLock' = p
    /\ wlog' = [wlog EXCEPT ![p] = Append(@, IF pc[p] = "exec_node" THEN "node" ELSE "edge")]
    /\ UNCHANGED <<tables, now, retries, payloads, merged_data, result, pre, base, post,
                   doneBefore, faults, commitLog>>
    /\ UNCHANGED sync
    /\ UNCHANGED caller

\* Mutant of ExecLocked: the wait is not doubled.
ExecLocked_NoDoubling(p) ==
    /\ Executing(p)
    /\ attempt[p] < retries
    /\ writeLock \notin {0, p}
    /\ IF attempt[p] < retries - 1
       THEN /\ sleeps' = [sleeps EXCEPT ![p] = Append(@, delay[p])]
            /\ attempt' = [attempt EXCEPT ![p] = attempt[p] + 1]
            /\ UNCHANGED <<pc, result, delay>>
       ELSE /\ result' = [result EXCEPT ![p] = "locked"]
            /\ pc' = [pc EXCEPT ![p] = "except"]
            /\ UNCHANGED <<sleeps, delay, attempt>>
    /\ UNCHANGED <<tables, writeLock, now, retries, payloads, idx, eidx, merged_data,
                   from_id, to_id, txn, pre, base, post, doneBefore, wlog, faults,
                   commitLog>>
    /\ UNCHANGED sync
    /\ UNCHANGED caller

\* conn.execute raised "database is locked": another connection holds the
\* write lock.  Lines 104-110.
ExecLocked(p) ==
    /\ Executing(p)
    /\ attempt[p] < retries
    /\ writeLock \notin {0, p}
    /\ IF attempt[p] < retries - 1
       THEN /\ sleeps' = [sleeps EXCEPT ![p] = Append(@, delay[p])]
            /\ delay' = [delay EXCEPT ![p] = delay[p] * 2]
            /\ attempt' = [attempt EXCEPT ![p] = attempt[p] + 1]
            /\ UNCHANGED <<pc, result>>
       ELSE /\ result' = [result EXCEPT ![p] = "locked"]
            /\ pc' = [pc EXCEPT ![p] = "except"]
            /\ UNCHANGED <<sleeps, delay, attempt>>
    /\ UNCHANGED <<tables, writeLock, now, retries, payloads, idx, eidx, merged_data,
                   from_id, to_id, txn, pre, base, post, doneBefore, wlog, faults,
                   commitLog>>
    /\ UNCHANGED sync
    /\ UNCHANGED caller

\* conn.execute raised any other error (a forced failure): re-raised at once.
ExecFault(p) ==
    /\ Executing(p)
    /\ attempt[p] < retries
    /\ faults < MaxFaults
    /\ faults' = faults + 1
    /\ result' = [result EXCEPT ![p] = "error"]
    /\ pc' = [pc EXCEPT ![p] = "except"]
    /\ UNCHANGED <<tables, writeLock, now, retries, locals, txn, pre, base, post,
                   doneBefore, wlog, sleeps, commitLog>>
    /\ UNCHANGED sync
    /\ UNCHANGED caller

\* The tables after connection p leaves its transaction by COMMIT.
CommitTables(p) == IF txn[p].active
                   THEN [nodes |-> txn[p].nodes, edges |-> txn[p].edges]
                   ELSE Committed

\* Mutant of RollbackTables: the except clause ends the transaction without
\* undoing its writes.
RollbackTables_KeepsWrites(p) == CommitTables(p)

\* The tables after connection p leaves its transaction by ROLLBACK.
RollbackTables(p) == Committed

\* Connection p ends its transaction leaving the tables as db.
EndTransaction(p, db) ==
    /\ nodes' = db.nodes
    /\ edges' = db.edges
    /\ writeLock' = IF writeLock = p THEN 0 ELSE writeLock
    /\ txn' = [txn EXCEPT ![p] = NoTxn]
    /\ pc' = [pc EXCEPT ![p] = "done"]
    /\ post' = [post EXCEPT ![p] = db]
    /\ base' = [q \in Procs |-> IF q # p /\ Active(q) THEN db ELSE base[q]]
    /\ idx' = [idx EXCEPT ![p] = 1]
    /\ eidx' = [eidx EXCEPT ![p] = 1]
    /\ merged_data' = [merged_data EXCEPT ![p] = <<>>]
    /\ attempt' = [attempt EXCEPT ![p] = 0]
    /\ delay' = [delay EXCEPT ![p] = initial_delay]
    /\ from_id' = [from_id EXCEPT ![p] = None]
    /\ to_id' = [to_id EXCEPT ![p] = None]

\* Line 176: conn.commit(); upsert_payloads returns.
Commit(p) ==
    /\ pc[p] = "commit"
    /\ EndTransaction(p, CommitTables(p))
    /\ result' = [result EXCEPT ![p] = "ok"]
    /\ commitLog' = Append(commitLog, p)
    /\ UNCHANGED <<now, retries, payloads, pre, doneBefore, wlog, sleeps, faults>>
    /\ UNCHANGED sync
    /\ UNCHANGED caller

\* Lines 178-181: conn.rollback(), then the error is re-raised to the caller.
Except(p) ==
    /\ pc[p] = "except"
    /\ EndTransaction(p, RollbackTables(p))
    /\ UNCHANGED <<now, retries, payloads, result, pre, doneBefore, wlog, sleeps, faults,
                   commitLog>>
    /\ UNCHANGED sync
    /\ UNCHANGED caller

\* CURRENT_TIMESTAMP advances.
Tick ==
    /\ now < MaxClock
    /\ now' = now + 1
    /\ UNCHANGED <<tables, writeLock, retries, pc, locals, txn, result, history>>
    /\ UNCHANGED sync
    /\ UNCHANGED caller

Next ==
    \/ \E p \in Procs : \E b \in Batches : Begin(p, b)
    \/ \E p \in Procs : SelectExisting(p)
    \/ \E p \in Procs : ExecOk(p)
    \/ \E p \in Procs : ExecLocked(p)
    \/ \E p \in Procs : ExecFault(p)
    \/ \E p \in Procs : Commit(p)
    \/ \E p \in Procs : Except(p)
    \/ Tick

Spec == Init /\ [][Next]_vars

\* ------------------------------------------- any retry count, 0 included
\* InternalDB(retries=n) takes any count.
AnyRetryCounts == 0..MaxRetries

\* Lines 101-110 with range(self.retries) exhausted before a first attempt
\* (retries = 0): the loop body never runs and _execute_with_retry returns
\* None; upsert_payloads goes on as after a statement that returned.
ExecSkipped(p) ==
    /\ Executing(p)
    /\ attempt[p] >= retries
    /\ Proceed(p, View(p))
    /\ UNCHANGED <<tables, writeLock, now, retries, payloads, merged_data, txn, result,
                   pre, base, post, doneBefore, wlog, faults, commitLog>>
    /\ UNCHANGED sync
    /\ UNCHANGED caller

ZeroInit ==
    /\ \E db \in SeedDbs : nodes = db.nodes /\ edges = db.edges
    /\ writeLock = 0
    /\ now = 0
    /\ retries \in AnyRetryCounts
    /\ pc = [p \in Procs |-> "idle"]
    /\ payloads = [p \in Procs |-> <<>>]
    /\ idx = [p \in Procs |-> 1]
    /\ eidx = [p \in Procs |-> 1]
    /\ merged_data = [p \in Procs |-> <<>>]
    /\ attempt = [p \in Procs |-> 0]
    /\ delay = [p \in Procs |-> initial_delay]
    /\ from_id = [p \in Procs |-> None]
    /\ to_id = [p \in Procs |-> None]
    /\ txn = [p \in Procs |-> NoTxn]
    /\ result = [p \in Procs |-> "none"]
    /\ pre = [p \in Procs |-> EmptyDb]
    /\ base = [p \in Procs |-> EmptyDb]
    /\ post = [p \in Procs |-> EmptyDb]
    /\ doneBefore = [p \in Procs |-> {}]
    /\ wlog = [p \in Procs |-> <<>>]
    /\ sleeps = [p \in Procs |-> <<>>]
    /\ faults = 0
    /\ commitLog = <<>>
    /\ NoSync

ZeroNext ==
    \/ \E p \in Procs : \E b \in Batches : Begin(p, b)
    \/ \E p \in Procs : SelectExisting(p)
    \/ \E p \in Procs : ExecOk(p)
    \/ \E p \in Procs : ExecSkipped(p)
    \/ \E p \in Procs : ExecLocked(p)
    \/ \E p \in Procs : ExecFault(p)
    \/ \E p \in Procs : Commit(p)
    \/ \E p \in Procs : Except(p)
    \/ Tick

ZeroSpec == ZeroInit /\ [][ZeroNext]_vars

\* =============================================================== store_subgraph
\* ------------------------------------------------------ the staging store
PlC1 == NodePayload("Org", "Unit", "c", <<<<"hq", "v">>>>,
                    <<EdgePayload("Org", "b", "supplies")>>)
PlD1 == NodePayload("Org", "Unit", "d", <<>>, <<>>)

\* upsert_payloads called with each batch of bs in turn.
RECURSIVE Ingest(_, _)
Ingest(db, bs) ==
    IF bs = <<>> THEN db ELSE Ingest(upsert_payloads(db, Head(bs), 0), Tail(bs))

\* The batches store_sql_step stored before store_graph_step runs.
SyncHistories ==
    { <<>>,
      << <<PlA0>> >>,
      << <<PlA2, PlB1>>, <<PlC1, PlD1>> >>,
      << <<PlP1>>, <<PlA2, PlB1>> >>,
      << <<PlB1>>, <<PlA1>>, <<PlB1>> >> }

SyncDbs == {Ingest(EmptyDb, h) : h \in SyncHistories}

\* Arguments store_subgraph is called with.
RootKeys == {"a", "b", "c", "d", "zz"}

\* rec = dict(row); rec["data"] = json.loads(rec["data"])
RowDict(row) == [row EXCEPT !.data = json_loads(row.data)]

\* Mutant of SelectRoot: with no match the lookup falls back to every row.
SelectRoot_OrAnyRow(db, lk) ==
    IF {n \in db.nodes : n.lookup_key = lk} = {} THEN db.nodes
    ELSE {n \in db.nodes : n.lookup_key = lk}

\* SELECT id, node_type, sub_type, lookup_key, data FROM nodes WHERE lookup_key = ?
SelectRoot(db, lk) == {n \in db.nodes : n.lookup_key = lk}

\* SELECT * FROM nodes WHERE id = ?
SelectById(db, id) == {n \in db.nodes : n.id = id}

\* SELECT * FROM edges WHERE from_id = ? OR to_id = ?   (rows in rowid order)
IncidentTo(id, e) == e.from_id = id \/ e.to_id = id

\* Mutant of SelectEdges: WHERE from_id = ? only, edges are followed forward.
SelectEdges_FromOnly(db, id) == SelectSeq(db.edges, LAMBDA e : e.from_id = id)

SelectEdges(db, id) == SelectSeq(db.edges, LAMBDA e : IncidentTo(id, e))

\* other = ed["to_id"] if ed["from_id"] == nid else ed["from_id"]
Other(id, ed) == IF ed.from_id = id THEN ed.to_id ELSE ed.from_id

\* Mutant of Discovered: only the targets of outgoing edges are queued.
RECURSIVE Discovered_OutgoingOnly(_, _, _)
Discovered_OutgoingOnly(id, rows, seen) ==
    IF rows = <<>> THEN <<>>
    ELSE IF Head(rows).from_id = id /\ Head(rows).to_id \notin seen
         THEN <<Head(rows).to_id>> \o Discovered_OutgoingOnly(id, Tail(rows), seen)
         ELSE Discovered_OutgoingOnly(id, Tail(rows), seen)

\* The ids the scan of node id appends to to_visit (lines 75-77).
RECURSIVE Discovered(_, _, _)
Discovered(id, rows, seen) ==
    IF rows = <<>> THEN <<>>
    ELSE IF Other(id, Head(rows)) \notin seen
         THEN <<Other(id, Head(rows))>> \o Discovered(id, Tail(rows), seen)
         ELSE Discovered(id, Tail(rows), seen)

\* ------------------------------------------------------- the remote store
\* doc_id = f"{nt}/{name}"
DocId(nt, name) == <<nt, "/", name>>

\* A Context handle of the SDK.
Handle(c) == [node_type |-> c.node_type, key |-> c.key]

\* ctx_mgr.get(doc_id)
CtxGet(r, doc_id) == {c \in r.contexts : DocId(c.node_type, c.key) = doc_id}

\* ctx_mgr.create(node_type, name, sub_type, attributes): the key is the name.
CtxCreate(r, nt, name, st, attrs, at) ==
    [r EXCEPT !.contexts = @ \cup {[node_type |-> nt, key |-> name, name |-> name,
                                     sub_type |-> st, attributes |-> attrs,
                                     created_in |-> at]}]

\* ctx_mgr.update(context_key, name, attributes): the attributes are merged
\* over the stored ones, the other fields are kept.
CtxUpdate(r, h, name, attrs) ==
    [r EXCEPT !.contexts =
        {IF Handle(c) = h
         THEN [c EXCEPT !.name = name, !.attributes = DictMerge(c.attributes, attrs)]
         ELSE c : c \in @}]

\* batch_link_edges([{"collection": rel_type, "edges": unique_edges}])
BatchLink(r, rel_type, es) ==
    [r EXCEPT !.links = @ \cup {<<rel_type, es[i][1], es[i][2]>> : i \in 1..Len(es)}]

\* -------------------------------------------------------------- the call
SeqToSet(s) == {s[i] : i \in 1..Len(s)}

Put(f, k, v) == [x \in (DOMAIN f) \cup {k} |-> IF x = k THEN v ELSE f[x]]

Log(op, arg, ok) == [op |-> op, arg |-> arg, ok |-> ok]

\* Mutant of GroupLinks: setdefault is replaced by a fresh list for each edge.
RECURSIVE GroupLinks_NoGrouping(_, _, _)
GroupLinks_NoGrouping(es, map, acc) ==
    IF es = <<>> THEN acc
    ELSE LET ed == Head(es)
         IN  IF ed.from_id \notin DOMAIN map \/ ed.to_id \notin DOMAIN map
             THEN GroupLinks_NoGrouping(Tail(es), map, acc)
             ELSE GroupLinks_NoGrouping(Tail(es), map,
                     Append(acc, [rel_type |-> ed.edge_type,
                                  edges |-> <<<<DocId(map[ed.from_id].collection,
                                                      map[ed.from_id].key),
                                                DocId(map[ed.to_id].collection,
                                                      map[ed.to_id].key)>>>>]))

\* Mutant of GroupLinks: _from and _to are taken from the wrong endpoints.
RECURSIVE GroupLinks_SwapsEnds(_, _, _)
GroupLinks_SwapsEnds(es, map, acc) ==
    IF es = <<>> THEN acc
    ELSE LET ed == Head(es)
         IN  IF ed.from_id \notin DOMAIN map \/ ed.to_id \notin DOMAIN map
             THEN GroupLinks_SwapsEnds(Tail(es), map, acc)
             ELSE LET pair == <<DocId(map[ed.to_id].collection, map[ed.to_id].key),
                                DocId(map[ed.from_id].collection, map[ed.from_id].key)>>
                      at == {i \in 1..Len(acc) : acc[i].rel_type = ed.edge_type}
                  IN  GroupLinks_SwapsEnds(Tail(es), map,
                         IF at = {}
                         THEN Append(acc, [rel_type |-> ed.edge_type, edges |-> <<pair>>])
                         ELSE [i \in 1..Len(acc) |->
                                 IF i \in at
                                 THEN [acc[i] EXCEPT !.edges = Append(@, pair)]
                                 ELSE acc[i]])

\* Lines 120-135: links_by_rel, a dict from rel_type to the list of mapped
\* pairs, in insertion order.
RECURSIVE GroupLinks(_, _, _)
GroupLinks(es, map, acc) ==
    IF es = <<>> THEN acc
    ELSE LET ed == Head(es)
         IN  IF ed.from_id \notin DOMAIN map \/ ed.to_id \notin DOMAIN map
             THEN GroupLinks(Tail(es), map, acc)
             ELSE LET pair == <<DocId(map[ed.from_id].collection, map[ed.from_id].key),
                                DocId(map[ed.to_id].collection, map[ed.to_id].key)>>
                      at == {i \in 1..Len(acc) : acc[i].rel_type = ed.edge_type}
                  IN  GroupLinks(Tail(es), map,
                         IF at = {}
                         THEN Append(acc, [rel_type |-> ed.edge_type, edges |-> <<pair>>])
                         ELSE [i \in 1..Len(acc) |->
                                 IF i \in at
                                 THEN [acc[i] EXCEPT !.edges = Append(@, pair)]
                                 ELSE acc[i]])

\* Mutant of Unique: the list is linked as collected, without the seen set.
Unique_KeepsAll(raw_edges, seen) == raw_edges

\* Lines 139-146: the pairs of raw_edges, each kept at its first occurrence.
RECURSIVE Unique(_, _)
Unique(raw_edges, seen) ==
    IF raw_edges = <<>> THEN <<>>
    ELSE IF Head(raw_edges) \in seen THEN Unique(Tail(raw_edges), seen)
         ELSE <<Head(raw_edges)>> \o Unique(Tail(raw_edges), seen \cup {Head(raw_edges)})

\* store_subgraph has returned or raised: its locals are gone.
Leave(out, log, rem, recs, es, map) ==
    /\ runs' = [runs EXCEPT ![run] = [@ EXCEPT !.outcome = out, !.log = log, !.after = rem,
                                                !.nodes = recs, !.edges = es,
                                                !.mapped = DOMAIN map]]
    /\ outcome' = out
    /\ rlog' = log
    /\ remote' = rem
    /\ spc' = "idle"
    /\ root' = NoRow
    /\ to_visit' = <<>>
    /\ visited' = {}
    /\ bfs_nodes' = <<>>
    /\ bfs_edges' = <<>>
    /\ nid' = None
    /\ nidx' = 1
    /\ existing' = NoHandle
    /\ sql_to_ctx' = <<>>
    /\ links_by_rel' = <<>>
    /\ ridx' = 1

\* Lines 37-54: the call is entered, the root is looked up by lookup_key.
StoreSubgraph(lk) ==
    /\ spc = "idle"
    /\ run < MaxRuns
    /\ run' = run + 1
    /\ lookup_key' = lk
    /\ LET root_row == SelectRoot(Committed, lk)
           rec == [lookup_key |-> lk, before |-> remote, after |-> remote,
                   outcome |-> "running", log |-> <<>>,
                   root |-> IF root_row = {} THEN None ELSE FetchOne(root_row).id,
                   nodes |-> <<>>, edges |-> <<>>, mapped |-> {}]
       IN  IF root_row = {}
           THEN /\ runs' = Append(runs, [rec EXCEPT !.outcome = "not_found"])
                /\ outcome' = "not_found"
                /\ rlog' = <<>>
                /\ UNCHANGED <<spc, root, to_visit, visited, bfs_nodes, bfs_edges>>
           ELSE /\ runs' = Append(runs, rec)
                /\ outcome' = "running"
                /\ rlog' = <<>>
                /\ root' = RowDict(FetchOne(root_row))
                /\ to_visit' = <<FetchOne(root_row).id>>
                /\ visited' = {}
                /\ bfs_nodes' = <<>>
                /\ bfs_edges' = <<>>
                /\ spc' = "bfs"
    /\ UNCHANGED <<remote, nid, nidx, existing, sql_to_ctx, links_by_rel, ridx, rfaults>>
    /\ UNCHANGED staging
    /\ UNCHANGED caller

\* Mutant of Visit: without the test "if nid in visited: continue".
Visit_NoVisitedTest ==
    /\ spc = "bfs"
    /\ to_visit # <<>>
    /\ to_visit' = Tail(to_visit)
    /\ nid' = Head(to_visit)
    /\ IF FALSE
       THEN UNCHANGED <<visited, bfs_nodes, rlog, spc>>
       ELSE /\ visited' = visited \cup {Head(to_visit)}
            /\ IF \E i \in 1..Len(bfs_nodes) : bfs_nodes[i].id = Head(to_visit)
               THEN UNCHANGED <<bfs_nodes, rlog>>
               ELSE /\ bfs_nodes' = Append(bfs_nodes,
                          RowDict(FetchOne(SelectById(Committed, Head(to_visit)))))
                    /\ rlog' = Append(rlog, Log("fetch", Head(to_visit), TRUE))
            /\ spc' = "scan"
    /\ UNCHANGED <<remote, run, lookup_key, root, bfs_edges, nidx, existing, sql_to_ctx,
                   links_by_rel, ridx, outcome, rfaults, runs>>
    /\ UNCHANGED staging
    /\ UNCHANGED caller

\* Lines 56-67: the next id is popped; an id seen before is dropped, a new
\* one is marked visited and its row is fetched.
Visit ==
    /\ spc = "bfs"
    /\ to_visit # <<>>
    /\ to_visit' = Tail(to_visit)
    /\ nid' = Head(to_visit)
    /\ IF Head(to_visit) \in visited
       THEN UNCHANGED <<visited, bfs_nodes, rlog, spc>>
       ELSE /\ visited' = visited \cup {Head(to_visit)}
            /\ IF \E i \in 1..Len(bfs_nodes) : bfs_nodes[i].id = Head(to_visit)
               THEN UNCHANGED <<bfs_nodes, rlog>>
               ELSE /\ bfs_nodes' = Append(bfs_nodes,
                          RowDict(FetchOne(SelectById(Committed, Head(to_visit)))))
                    /\ rlog' = Append(rlog, Log("fetch", Head(to_visit), TRUE))
            /\ spc' = "scan"
    /\ UNCHANGED <<remote, run, lookup_key, root, bfs_edges, nidx, existing, sql_to_ctx,
                   links_by_rel, ridx, outcome, rfaults, runs>>
    /\ UNCHANGED staging
    /\ UNCHANGED caller

\* Lines 70-77: the edges incident to nid are read and appended, their other
\* endpoints queued unless visited.
ScanEdges ==
    /\ spc = "scan"
    /\ LET rows == SelectEdges(Committed, nid)
       IN  /\ bfs_edges' = bfs_edges \o rows
           /\ to_visit' = to_visit \o Discovered(nid, rows, visited)
    /\ rlog' = Append(rlog, Log("scan", nid, TRUE))
    /\ spc' = "bfs"
    /\ UNCHANGED <<remote, run, lookup_key, root, visited, bfs_nodes, nid, nidx, existing,
                   sql_to_ctx, links_by_rel, ridx, outcome, rfaults, runs>>
    /\ UNCHANGED staging
    /\ UNCHANGED caller

\* Line 56 with to_visit empty, line 80: the traversal is over.
EndTraversal ==
    /\ spc = "bfs"
    /\ to_visit = <<>>
    /\ sql_to_ctx' = <<>>
    /\ nidx' = 1
    /\ spc' = "get"
    /\ UNCHANGED <<remote, run, lookup_key, root, to_visit, visited, bfs_nodes, bfs_edges,
                   nid, existing, links_by_rel, ridx, outcome, rfaults, rlog, runs>>
    /\ UNCHANGED staging
    /\ UNCHANGED caller

\* Lines 88-90: ctx_mgr.get(doc_id) answers.
GetExisting ==
    /\ spc = "get"
    /\ nidx <= Len(bfs_nodes)
    /\ LET rec == bfs_nodes[nidx]
           doc_id == DocId(rec.node_type, rec.lookup_key)
           hit == CtxGet(remote, doc_id)
       IN  /\ existing' = IF hit = {} THEN NoHandle ELSE Handle(CHOOSE c \in hit : TRUE)
           /\ rlog' = Append(rlog, Log("get", doc_id, TRUE))
    /\ spc' = "put"
    /\ UNCHANGED <<remote, run, lookup_key, root, to_visit, visited, bfs_nodes, bfs_edges,
                   nid, nidx, sql_to_ctx, links_by_rel, ridx, outcome, rfaults, runs>>
    /\ UNCHANGED staging
    /\ UNCHANGED caller

\* Lines 89-92: ctx_mgr.get(doc_id) raises; "except Exception: existing = None".
GetFails ==
    /\ spc = "get"
    /\ nidx <= Len(bfs_nodes)
    /\ rfaults < MaxRemoteFaults
    /\ rfaults' = rfaults + 1
    /\ existing' = NoHandle
    /\ rlog' = Append(rlog, Log("get", DocId(bfs_nodes[nidx].node_type,
                                             bfs_nodes[nidx].lookup_key), FALSE))
    /\ spc' = "put"
    /\ UNCHANGED <<remote, run, lookup_key, root, to_visit, visited, bfs_nodes, bfs_edges,
                   nid, nidx, sql_to_ctx, links_by_rel, ridx, outcome, runs>>
    /\ UNCHANGED staging
    /\ UNCHANGED caller

\* Lines 111-115: the mapping of the node just upserted.
Mapped(map, rec, ctx) ==
    Put(map, rec.id, [ctx |-> ctx, key |-> ctx.key, collection |-> rec.node_type])

\* Mutant of UpdateContext: the mapping is recorded only for created contexts.
UpdateContext_NoMapping ==
    /\ spc = "put"
    /\ existing # NoHandle
    /\ LET rec == bfs_nodes[nidx]
       IN  /\ remote' = CtxUpdate(remote, existing, rec.lookup_key, rec.data)
           /\ sql_to_ctx' = sql_to_ctx
           /\ rlog' = Append(rlog, Log("update", DocId(existing.node_type, existing.key),
                                       TRUE))
    /\ nidx' = nidx + 1
    /\ spc' = "get"
    /\ UNCHANGED <<run, lookup_key, root, to_visit, visited, bfs_nodes, bfs_edges, nid,
                   existing, links_by_rel, ridx, outcome, rfaults, runs>>
    /\ UNCHANGED staging
    /\ UNCHANGED caller

\* Lines 94-101: the context exists and is updated.
UpdateContext ==
    /\ spc = "put"
    /\ existing # NoHandle
    /\ LET rec == bfs_nodes[nidx]
       IN  /\ remote' = CtxUpdate(remote, existing, rec.lookup_key, rec.data)
           /\ sql_to_ctx' = Mapped(sql_to_ctx, rec, existing)
           /\ rlog' = Append(rlog, Log("update", DocId(existing.node_type, existing.key),
                                       TRUE))
    /\ nidx' = nidx + 1
    /\ spc' = "get"
    /\ UNCHANGED <<run, lookup_key, root, to_visit, visited, bfs_nodes, bfs_edges, nid,
                   existing, links_by_rel, ridx, outcome, rfaults, runs>>
    /\ UNCHANGED staging
    /\ UNCHANGED caller

\* Lines 102-109: no context was found and one is created.
CreateContext ==
    /\ spc = "put"
    /\ existing = NoHandle
    /\ LET rec == bfs_nodes[nidx]
           doc_id == DocId(rec.node_type, rec.lookup_key)
       IN  /\ CtxGet(remote, doc_id) = {}
           /\ remote' = CtxCreate(remote, rec.node_type, rec.lookup_key, rec.sub_type,
                                  rec.data, run)
           /\ sql_to_ctx' = Mapped(sql_to_ctx, rec,
                                   [node_type |-> rec.node_type, key |-> rec.lookup_key])
           /\ rlog' = Append(rlog, Log("create", doc_id, TRUE))
    /\ nidx' = nidx + 1
    /\ spc' = "get"
    /\ UNCHANGED <<run, lookup_key, root, to_visit, visited, bfs_nodes, bfs_edges, nid,
                   existing, links_by_rel, ridx, outcome, rfaults, runs>>
    /\ UNCHANGED staging
    /\ UNCHANGED caller

\* Lines 96-109: update or create raises (the remote fails, or create meets a
\* context of that identity); the error leaves store_subgraph.
PutFails ==
    /\ spc = "put"
    /\ LET rec == bfs_nodes[nidx]
           doc_id == DocId(rec.node_type, rec.lookup_key)
           conflict == existing = NoHandle /\ CtxGet(remote, doc_id) # {}
       IN  /\ conflict \/ rfaults < MaxRemoteFaults
           /\ rfaults' = IF conflict THEN rfaults ELSE rfaults + 1
           /\ Leave("remote_error",
                    Append(rlog, Log(IF existing = NoHandle THEN "create" ELSE "update",
                                     doc_id, FALSE)),
                    remote, bfs_nodes, bfs_edges, sql_to_ctx)
    /\ UNCHANGED <<run, lookup_key>>
    /\ UNCHANGED staging
    /\ UNCHANGED caller

\* Lines 117-135: every node is upserted; the edges are mapped and grouped.
BuildLinks ==
    /\ spc = "get"
    /\ nidx > Len(bfs_nodes)
    /\ links_by_rel' = GroupLinks(bfs_edges, sql_to_ctx, <<>>)
    /\ ridx' = 1
    /\ spc' = "link"
    /\ UNCHANGED <<remote, run, lookup_key, root, to_visit, visited, bfs_nodes, bfs_edges,
                   nid, nidx, existing, sql_to_ctx, outcome, rfaults, rlog, runs>>
    /\ UNCHANGED staging
    /\ UNCHANGED caller

\* Lines 138-151: one group is de-duplicated and linked.
LinkGroup ==
    /\ spc = "link"
    /\ ridx <= Len(links_by_rel)
    /\ LET rel_type == links_by_rel[ridx].rel_type
           unique_edges == Unique(links_by_rel[ridx].edges, {})
       IN  /\ remote' = BatchLink(remote, rel_type, unique_edges)
           /\ rlog' = Append(rlog, Log("link", <<rel_type, unique_edges>>, TRUE))
    /\ ridx' = ridx + 1
    /\ UNCHANGED <<run, spc, lookup_key, root, to_visit, visited, bfs_nodes, bfs_edges,
                   nid, nidx, existing, sql_to_ctx, links_by_rel, outcome, rfaults, runs>>
    /\ UNCHANGED staging
    /\ UNCHANGED caller

\* Mutant of LinkFails: the remote writes of the call are undone before the
\* error leaves store_subgraph.
LinkFails_UndoesWrites ==
    /\ spc = "link"
    /\ ridx <= Len(links_by_rel)
    /\ rfaults < MaxRemoteFaults
    /\ rfaults' = rfaults + 1
    /\ Leave("remote_error",
             Append(rlog, Log("link", <<links_by_rel[ridx].rel_type,
                                        Unique(links_by_rel[ridx].edges, {})>>, FALSE)),
             runs[run].before, bfs_nodes, bfs_edges, sql_to_ctx)
    /\ UNCHANGED <<run, lookup_key>>
    /\ UNCHANGED staging
    /\ UNCHANGED caller

\* Lines 149-151: batch_link_edges raises; the error leaves store_subgraph.
LinkFails ==
    /\ spc = "link"
    /\ ridx <= Len(links_by_rel)
    /\ rfaults < MaxRemoteFaults
    /\ rfaults' = rfaults + 1
    /\ Leave("remote_error",
             Append(rlog, Log("link", <<links_by_rel[ridx].rel_type,
                                        Unique(links_by_rel[ridx].edges, {})>>, FALSE)),
             remote, bfs_nodes, bfs_edges, sql_to_ctx)
    /\ UNCHANGED <<run, lookup_key>>
    /\ UNCHANGED staging
    /\ UNCHANGED caller

\* Mutant of Return: the exported edges are deleted from the staging store.
Return_PurgesExported ==
    /\ spc = "link"
    /\ ridx > Len(links_by_rel)
    /\ Leave("ok", rlog, remote, bfs_nodes, bfs_edges, sql_to_ctx)
    /\ UNCHANGED <<run, lookup_key, rfaults>>
    /\ edges' = SelectSeq(edges, LAMBDA e : e \notin SeqToSet(bfs_edges))
    /\ UNCHANGED <<nodes, writeLock, now, retries, pc, locals, txn, result, history>>
    /\ UNCHANGED caller

\* Line 154: the root's context is returned.
Return ==
    /\ spc = "link"
    /\ ridx > Len(links_by_rel)
    /\ Leave("ok", rlog, remote, bfs_nodes, bfs_edges, sql_to_ctx)
    /\ UNCHANGED <<run, lookup_key, rfaults>>
    /\ UNCHANGED staging
    /\ UNCHANGED caller

\* The staging store holds what earlier batches left; nothing writes to it.
SyncInit ==
    /\ \E db \in SyncDbs : nodes = db.nodes /\ edges = db.edges
    /\ writeLock = 0
    /\ now = 0
    /\ retries = MaxRetries
    /\ pc = [p \in Procs |-> "idle"]
    /\ payloads = [p \in Procs |-> <<>>]
    /\ idx = [p \in Procs |-> 1]
    /\ eidx = [p \in Procs |-> 1]
    /\ merged_data = [p \in Procs |-> <<>>]
    /\ attempt = [p \in Procs |-> 0]
    /\ delay = [p \in Procs |-> initial_delay]
    /\ from_id = [p \in Procs |-> None]
    /\ to_id = [p \in Procs |-> None]
    /\ txn = [p \in Procs |-> NoTxn]
    /\ result = [p \in Procs |-> "none"]
    /\ pre = [p \in Procs |-> EmptyDb]
    /\ base = [p \in Procs |-> EmptyDb]
    /\ post = [p \in Procs |-> EmptyDb]
    /\ doneBefore = [p \in Procs |-> {}]
    /\ wlog = [p \in Procs |-> <<>>]
    /\ sleeps = [p \in Procs |-> <<>>]
    /\ faults = 0
    /\ commitLog = <<>>
    /\ NoSync

SyncNext ==
    \/ \E lk \in RootKeys : StoreSubgraph(lk)
    \/ Visit
    \/ ScanEdges
    \/ EndTraversal
    \/ GetExisting
    \/ GetFails
    \/ UpdateContext
    \/ CreateContext
    \/ PutFails
    \/ BuildLinks
    \/ LinkGroup
    \/ LinkFails
    \/ Return

SyncSpec == SyncInit /\ [][SyncNext]_vars

\* The traversal is a sequential loop over local reads, which never wait for
\* a writer: each of its steps is taken once control reaches it.
SyncLive == SyncSpec /\ WF_vars(Visit) /\ WF_vars(ScanEdges) /\ WF_vars(EndTraversal)

\* ------------------------- store_subgraph while upsert_payloads is running
\* store_graph_step exports while one store_sql_step call writes on its own
\* connection; the remote store answers every call.  Each SELECT of
\* store_subgraph reads the tables as last committed.
MixNext ==
    \/ \E b \in Batches : Begin(1, b)
    \/ SelectExisting(1)
    \/ ExecOk(1)
    \/ ExecFault(1)
    \/ Commit(1)
    \/ Except(1)
    \/ \E lk \in RootKeys : StoreSubgraph(lk)
    \/ Visit
    \/ ScanEdges
    \/ EndTraversal
    \/ GetExisting
    \/ UpdateContext
    \/ CreateContext
    \/ BuildLinks
    \/ LinkGroup
    \/ Return

MixSpec == SyncInit /\ [][MixNext]_vars

\* ------------------------------------------------------- store_graph_step
\* Names store_graph_step is run for.
StepNames == {"a", "zz"}

\* The step has ended: how, and what became of its handler's client.
Exit(path) == exits' = Append(exits, [path |-> path, client |-> client'])

\* Lines 46-57, and lines 19-26 of __init__: without payloads the step is
\* skipped; else the handler is constructed and its GraphClient opened.
StepBegin(name, present) ==
    /\ cpc = "idle"
    /\ steps < MaxSteps
    /\ steps' = steps + 1
    /\ canonical_name' = name
    /\ IF present
       THEN /\ client' = "open"
            /\ cpc' = "init"
            /\ UNCHANGED exits
       ELSE /\ client' = "none"
            /\ cpc' = "idle"
            /\ Exit("skipped")
    /\ UNCHANGED runAt
    /\ UNCHANGED sync
    /\ UNCHANGED staging

\* Lines 27-28 of __init__: the managers are obtained from the open client and
\* the constructor returns; the step enters its try block.
HandlerInit ==
    /\ cpc = "init"
    /\ cpc' = "try"
    /\ runAt' = run
    /\ UNCHANGED <<client, steps, canonical_name, exits>>
    /\ UNCHANGED sync
    /\ UNCHANGED staging

\* Lines 27-28 of __init__ raise: the constructor is called at line 57, before
\* the try block, so the error leaves store_graph_step and no handler is bound.
HandlerInitFails ==
    /\ cpc = "init"
    /\ rfaults < MaxRemoteFaults
    /\ rfaults' = rfaults + 1
    /\ cpc' = "idle"
    /\ client' = client
    /\ Exit("init_raised")
    /\ UNCHANGED <<steps, runAt, canonical_name>>
    /\ UNCHANGED <<remote, run, spc, lookup_key, root, to_visit, visited, bfs_nodes,
                   bfs_edges, nid, nidx, existing, sql_to_ctx, links_by_rel, ridx, outcome,
                   rlog, runs>>
    /\ UNCHANGED staging

\* Line 60: handler.store_subgraph(canonical_name) is entered.
Call ==
    /\ cpc = "try"
    /\ run = runAt
    /\ StoreSubgraph(canonical_name)

\* store_subgraph has left, by return or by raising.
Left == cpc = "try" /\ run = runAt + 1 /\ spc = "idle"

\* Lines 62-64: store_subgraph raised; the except clause closes the client.
ExceptClose ==
    /\ Left
    /\ outcome # "ok"
    /\ client' = "closed"
    /\ cpc' = "finally"
    /\ UNCHANGED <<steps, runAt, canonical_name, exits>>
    /\ UNCHANGED sync
    /\ UNCHANGED staging

\* Lines 70-71: the finally clause closes the client, after the try block
\* ended or after the except clause; the step returns.
Finally ==
    /\ \/ Left /\ outcome = "ok"
       \/ cpc = "finally"
    /\ client' = "closed"
    /\ cpc' = "idle"
    /\ Exit(IF cpc = "finally" THEN "failed" ELSE "ok")
    /\ UNCHANGED <<steps, runAt, canonical_name>>
    /\ UNCHANGED sync
    /\ UNCHANGED staging

StepNext ==
    \/ \E name \in StepNames : \E present \in BOOLEAN : StepBegin(name, present)
    \/ HandlerInit
    \/ HandlerInitFails
    \/ Call
    \/ Visit
    \/ ScanEdges
    \/ EndTraversal
    \/ GetExisting
    \/ GetFails
    \/ UpdateContext
    \/ CreateContext
    \/ PutFails
    \/ BuildLinks
    \/ LinkGroup
    \/ LinkFails
    \/ Return
    \/ ExceptClose
    \/ Finally

StepSpec == SyncInit /\ [][StepNext]_vars

\* ------------------------------------------------- reading a store's content
\* The attribute map a JSON text denotes.
DataMap(text) ==
    LET d == json_loads(text) IN [k \in DictKeys(d) |-> GetVal(d, k)]

\* The attribute map a payload carries.
PayloadMap(pl) == [k \in DictKeys(pl.data) |-> GetVal(pl.data, k)]

EmptyMap == [k \in {} |-> "none"]

\* stored overlaid by incoming.
Overlay(stored, incoming) ==
    [k \in (DOMAIN stored) \cup (DOMAIN incoming) |->
        IF k \in DOMAIN incoming THEN incoming[k] ELSE stored[k]]

\* Node set, node data and edge rows of a store, timestamps left out.
Rows(db) ==
    [nodes |-> {[id |-> n.id, node_type |-> n.node_type, sub_type |-> n.sub_type,
                 lookup_key |-> n.lookup_key, data |-> DataMap(n.data)] : n \in db.nodes},
     edges |-> [i \in 1..Len(db.edges) |->
                  <<db.edges[i].from_id, db.edges[i].to_id, db.edges[i].edge_type>>]]

Identity(n) == <<n.node_type, n.lookup_key>>

NodeIds(db) == {n.id : n \in db.nodes}

NodeOfId(db, id) == CHOOSE n \in db.nodes : n.id = id

Has(db, ident) == SelectNode(db, ident[1], ident[2]) # {}

BatchIdentities(b) == {Identity(b[i]) : i \in 1..Len(b)}

UniqueIdentities(db) ==
    \A n, m \in db.nodes : Identity(n) = Identity(m) => n = m

\* A call that ran on an unchanging store: nothing was committed by another
\* connection between its entry and its end.
Alone(p) == base[p] = pre[p]

Ok(p) == pc[p] = "done" /\ result[p] = "ok"

\* ------------------------------------------------------------------ claims
\* C1: an error raised inside upsert_payloads (a forced failure in either
\* pass, or lock-retry exhaustion) reaches the caller, and the store then holds
\* exactly the nodes, node data and edges it would hold without the call.
C1_RollbackRestoresStore ==
    \A p \in Procs :
        Raised(p) =>
            \/ pc[p] = "except" /\ Committed = base[p]
            \/ pc[p] = "done" /\ post[p] = base[p] /\ ~txn[p].active /\ writeLock # p

\* C1 witness: a forced failure in the edge pass, after the node pass and one
\* edge were written, has been raised and rolled back.
C1_Witness ==
    \E p \in Procs :
        /\ pc[p] = "done"
        /\ result[p] = "error"
        /\ \E i \in 1..Len(wlog[p]) : wlog[p][i] = "edge"

\* The map the node of identity ident must hold after the payloads i.. of b
\* were merged, in order, into the map m.
RECURSIVE ExpectedMap(_, _, _, _)
ExpectedMap(m, b, i, ident) ==
    IF i > Len(b) THEN m
    ELSE ExpectedMap(IF Identity(b[i]) = ident THEN Overlay(m, PayloadMap(b[i])) ELSE m,
                     b, i + 1, ident)

StoredMap(db, ident) ==
    IF Has(db, ident) THEN DataMap(FetchOne(SelectNode(db, ident[1], ident[2])).data)
    ELSE EmptyMap

\* C2: after a submission that follows an earlier one for the same
\* (node_type, lookup_key), exactly one node has that identity and its data is
\* the stored map overlaid by the incoming map.
C2_MergeOverlaysIncoming ==
    \A p \in Procs :
        (Ok(p) /\ Alone(p)) =>
            \A ident \in BatchIdentities(payloads[p]) :
                /\ Cardinality(SelectNode(post[p], ident[1], ident[2])) = 1
                /\ StoredMap(post[p], ident)
                     = ExpectedMap(StoredMap(pre[p], ident), payloads[p], 1, ident)

\* C2 witness: the node existed, the incoming map overrode one of its keys and
\* another stored key was kept.
C2_Witness ==
    \E p \in Procs :
        /\ Ok(p) /\ Alone(p)
        /\ \E ident \in BatchIdentities(payloads[p]) :
              /\ Has(pre[p], ident)
              /\ \E k \in DOMAIN StoredMap(pre[p], ident) :
                    StoredMap(post[p], ident)[k] # StoredMap(pre[p], ident)[k]
              /\ \E k \in DOMAIN StoredMap(pre[p], ident) :
                    /\ \A i \in 1..Len(payloads[p]) : ~HasKey(payloads[p][i].data, k)
                    /\ StoredMap(post[p], ident)[k] = StoredMap(pre[p], ident)[k]

\* C3: a batch re-submitted after its first call succeeded, or after its first
\* call failed and was rolled back, leaves the node set, node data and edge
\* rows of a single successful call with that batch.
C3_ResubmitIsIdempotent ==
    \A p, q \in Procs :
        (/\ p \in doneBefore[q]
         /\ payloads[q] = payloads[p]
         /\ Ok(q) /\ Alone(q) /\ Alone(p))
        => IF result[p] = "ok"
           THEN Rows(post[q]) = Rows(post[p])
           ELSE Rows(post[q]) = Rows(upsert_payloads(pre[p], payloads[p], 0))

\* C3 witness: both cases, on a batch that writes nodes and edges.
C3_WitnessAfterSuccess ==
    \E p, q \in Procs :
        /\ p \in doneBefore[q] /\ payloads[q] = payloads[p]
        /\ Ok(q) /\ result[p] = "ok"
        /\ Len(post[q].edges) >= 2

C3_Witness ==
    \E p, q \in Procs :
        /\ p \in doneBefore[q] /\ payloads[q] = payloads[p]
        /\ Ok(q) /\ Raised(p)
        /\ Len(post[q].edges) >= 2

\* C4: no two stored nodes share (node_type, lookup_key), in the committed
\* tables and in every open transaction.
C4_UniqueNodeIdentity ==
    /\ UniqueIdentities(Committed)
    /\ \A p \in Procs : UniqueIdentities(View(p))

\* C4 witness: calls that overlapped have both upserted an identity that was
\* already stored, one of them failing.
C4_Witness ==
    \E p, q \in Procs :
        /\ p # q
        /\ pc[p] = "done" /\ pc[q] = "done"
        /\ doneBefore[p] = {} /\ doneBefore[q] = {}
        /\ Raised(p) /\ result[q] = "ok"
        /\ \E ident \in BatchIdentities(payloads[p]) \cap BatchIdentities(payloads[q]) :
              Has(pre[q], ident)

\* The node of a store with a given identity, and its id.
NodeOf(db, ident) == CHOOSE n \in db.nodes : Identity(n) = ident

IdOf(db, ident) == NodeOf(db, ident).id

\* The edges a batch declares, by the identities of their endpoints.
DeclaredEdges(b) ==
    UNION {{[from |-> Identity(b[i]),
             to |-> <<b[i].edges[j].to_node_type, b[i].edges[j].to_lookup_key>>,
             edge_type |-> b[i].edges[j].edge_type] : j \in 1..Len(b[i].edges)} :
           i \in 1..Len(b)}

EdgeRowsOf(db, f, to, et) ==
    {i \in 1..Len(db.edges) :
        /\ db.edges[i].from_id = f
        /\ db.edges[i].to_id = to
        /\ db.edges[i].edge_type = et}

NoDuplicateEdges(db) ==
    \A i, j \in 1..Len(db.edges) :
        (/\ db.edges[i].from_id = db.edges[j].from_id
         /\ db.edges[i].to_id = db.edges[j].to_id
         /\ db.edges[i].edge_type = db.edges[j].edge_type) => i = j

\* C5: at most one edge row per (from_id, to_id, edge_type), and every edge a
\* committed batch declared between two stored nodes has exactly one row, one
\* per edge_type.
C5_OneRowPerEdge ==
    /\ NoDuplicateEdges(Committed)
    /\ \A p \in Procs :
          /\ NoDuplicateEdges(View(p))
          /\ Ok(p) =>
                \A d \in DeclaredEdges(payloads[p]) :
                    Has(post[p], d.to) =>
                        Cardinality(EdgeRowsOf(post[p], IdOf(post[p], d.from),
                                               IdOf(post[p], d.to), d.edge_type)) = 1

\* C5 witness: a batch declaring one edge twice was committed on a store that
\* already held that edge, and two edge types join the same pair of nodes.
C5_Witness ==
    \E p \in Procs :
        /\ Ok(p)
        /\ \E i \in 1..Len(payloads[p]) : \E j, k \in 1..Len(payloads[p][i].edges) :
              /\ j # k
              /\ payloads[p][i].edges[j] = payloads[p][i].edges[k]
              /\ Has(base[p], Identity(payloads[p][i]))
              /\ Has(base[p], <<payloads[p][i].edges[j].to_node_type,
                               payloads[p][i].edges[j].to_lookup_key>>)
              /\ EdgeRowsOf(base[p], IdOf(base[p], Identity(payloads[p][i])),
                            IdOf(base[p], <<payloads[p][i].edges[j].to_node_type,
                                           payloads[p][i].edges[j].to_lookup_key>>),
                            payloads[p][i].edges[j].edge_type) # {}
        /\ \E i, j \in 1..Len(post[p].edges) :
              /\ post[p].edges[i].from_id = post[p].edges[j].from_id
              /\ post[p].edges[i].to_id = post[p].edges[j].to_id
              /\ post[p].edges[i].edge_type # post[p].edges[j].edge_type

NoDanglingEdges(db) ==
    \A i \in 1..Len(db.edges) :
        db.edges[i].from_id \in NodeIds(db) /\ db.edges[i].to_id \in NodeIds(db)

\* C6: in every committed state both endpoints of every stored edge are ids
\* of stored nodes.
C6_NoDanglingEdge == NoDanglingEdges(Committed)

\* C6 witness: edges are stored after one call declaring an edge to a target
\* that was never ingested has committed and another call has failed.
C6_Witness ==
    /\ Len(edges) >= 2
    /\ \E p, q \in Procs :
          /\ Ok(p)
          /\ \E d \in DeclaredEdges(payloads[p]) : ~Has(Committed, d.to)
          /\ pc[q] = "done" /\ Raised(q) /\ wlog[q] # <<>>

RowsOfStore(db) == {db.edges[i] : i \in 1..Len(db.edges)}

\* C7: a call declaring an edge to a target that is neither in the batch nor
\* stored completes without raising unless a statement failed or stayed
\* locked; its nodes are stored with the merged data, and every edge row it
\* adds joins the stored nodes of a declared edge, so none stands for the
\* unresolved declaration.
C7_UnresolvedEdgeSkipped ==
    \A p \in Procs :
        /\ (pc[p] = "done" /\ faults = 0 /\ result[p] # "locked") => result[p] = "ok"
        /\ Ok(p) =>
              /\ \A ident \in BatchIdentities(payloads[p]) :
                    /\ Has(post[p], ident)
                    /\ Alone(p) =>
                          StoredMap(post[p], ident)
                            = ExpectedMap(StoredMap(pre[p], ident), payloads[p], 1, ident)
              /\ \A r \in RowsOfStore(post[p]) \ RowsOfStore(base[p]) :
                    \E d \in DeclaredEdges(payloads[p]) :
                        /\ Has(post[p], d.to)
                        /\ r.from_id = IdOf(post[p], d.from)
                        /\ r.to_id = IdOf(post[p], d.to)
                        /\ r.edge_type = d.edge_type

\* C7 witness: such a call has completed, adding rows for its other edges.
C7_Witness ==
    \E p \in Procs :
        /\ Ok(p)
        /\ \E d \in DeclaredEdges(payloads[p]) :
              /\ ~Has(post[p], d.to)
              /\ ~Has(pre[p], d.to)
        /\ RowsOfStore(post[p]) # RowsOfStore(base[p])

RECURSIVE Reverse(_)
Reverse(b) == IF b = <<>> THEN <<>> ELSE Append(Reverse(Tail(b)), Head(b))

\* The edges of a store by the identities of their endpoints.
NaturalEdges(db) ==
    {<<Identity(NodeOfId(db, db.edges[i].from_id)),
       Identity(NodeOfId(db, db.edges[i].to_id)), db.edges[i].edge_type>> :
         i \in 1..Len(db.edges)}

\* C8: within a call no node write follows an edge write; an edge whose target
\* is a payload of the same batch is stored wherever that payload stands; and
\* the stored edges are those of the batch submitted in the opposite order.
C8_NodesBeforeEdges ==
    \A p \in Procs :
        /\ \A i, j \in 1..Len(wlog[p]) :
              (wlog[p][i] = "edge" /\ wlog[p][j] = "node") => j < i
        /\ Ok(p) =>
              /\ \A d \in DeclaredEdges(payloads[p]) :
                    d.to \in BatchIdentities(payloads[p]) =>
                        EdgeRowsOf(post[p], IdOf(post[p], d.from),
                                   IdOf(post[p], d.to), d.edge_type) # {}
              /\ NaturalEdges(post[p])
                   = NaturalEdges(upsert_payloads(base[p], Reverse(payloads[p]), 0))

\* C8 witness: a committed batch whose first payload declares an edge to the
\* node its second payload introduces, and whose second payload declares an
\* edge back.
C8_Witness ==
    \E p \in Procs :
        /\ Ok(p)
        /\ Len(payloads[p]) = 2
        /\ ~Has(base[p], Identity(payloads[p][2]))
        /\ ~Has(base[p], Identity(payloads[p][1]))
        /\ \E d \in DeclaredEdges(payloads[p]) :
              d.from = Identity(payloads[p][1]) /\ d.to = Identity(payloads[p][2])
        /\ \E d \in DeclaredEdges(payloads[p]) :
              d.from = Identity(payloads[p][2]) /\ d.to = Identity(payloads[p][1])

RECURSIVE Pow2(_)
Pow2(n) == IF n = 0 THEN 1 ELSE 2 * Pow2(n - 1)

NaturalDb(db) ==
    [nodes |-> {[node_type |-> n.node_type, sub_type |-> n.sub_type,
                 lookup_key |-> n.lookup_key, data |-> DataMap(n.data)] : n \in db.nodes},
     edges |-> NaturalEdges(db)]

InOrder(db, b1, b2) == upsert_payloads(upsert_payloads(db, b1, 0), b2, 0)

\* Two calls that overlapped and both committed, on disjoint identities.
ConcurrentDisjoint(p, q) ==
    /\ p # q
    /\ Ok(p) /\ Ok(q)
    /\ doneBefore[p] = {} /\ doneBefore[q] = {}
    /\ BatchIdentities(payloads[p]) \cap BatchIdentities(payloads[q]) = {}

\* No edge of batch b1 points at a node that only batch b2 creates.
NoEdgeIntoCreated(db, b1, b2) ==
    \A d \in DeclaredEdges(b1) :
        d.to \in BatchIdentities(b2) => (Has(db, d.to) \/ d.to \in BatchIdentities(b1))

OrderIndependent(p, q) ==
    /\ NaturalDb(Committed) = NaturalDb(InOrder(pre[p], payloads[p], payloads[q]))
    /\ NaturalDb(Committed) = NaturalDb(InOrder(pre[p], payloads[q], payloads[p]))

\* C10 as stated: two concurrent committed calls on disjoint identities leave
\* the content of running them one after the other in either order.
C10_AsStated ==
    \A p, q \in Procs : ConcurrentDisjoint(p, q) => OrderIndependent(p, q)

\* C10 amended: the same, provided no edge declared by one batch targets a
\* node that only the other batch creates; content is compared by
\* (node_type, lookup_key), not by surrogate id.
C10_DisjointOrderIndependent ==
    \A p, q \in Procs :
        (/\ ConcurrentDisjoint(p, q)
         /\ NoEdgeIntoCreated(pre[p], payloads[p], payloads[q])
         /\ NoEdgeIntoCreated(pre[p], payloads[q], payloads[p]))
        => OrderIndependent(p, q)

\* C10 witness: two such calls, both writing edges, one of which committed
\* while the other was in progress.
C10_Witness ==
    \E p, q \in Procs :
        /\ ConcurrentDisjoint(p, q)
        /\ NoEdgeIntoCreated(pre[p], payloads[p], payloads[q])
        /\ NoEdgeIntoCreated(pre[p], payloads[q], payloads[p])
        /\ ~Alone(q)
        /\ \E i \in 1..Len(wlog[p]) : wlog[p][i] = "edge"
        /\ \E i \in 1..Len(wlog[q]) : wlog[q][i] = "edge"

\* ------------------------------------------- concurrent writes to one node
\* The attribute keys the payloads of batch b carry for identity ident.
KeysWritten(b, ident) ==
    UNION {DictKeys(b[i].data) : i \in {j \in 1..Len(b) : Identity(b[j]) = ident}}

\* The value batch b leaves under key k of identity ident: that of its last
\* payload for ident that carries k.
ValueWritten(b, ident, k) ==
    LET last == Max({i \in 1..Len(b) : Identity(b[i]) = ident /\ HasKey(b[i].data, k)})
    IN  GetVal(b[last].data, k)

\* Two calls that overlapped, both committed, and both carry the identity.
ConcurrentOn(p, q, ident) ==
    /\ p # q
    /\ Ok(p) /\ Ok(q)
    /\ doneBefore[p] = {} /\ doneBefore[q] = {}
    /\ ident \in BatchIdentities(payloads[p]) \cap BatchIdentities(payloads[q])

\* C11: two concurrent calls on the same existing node that write different
\* keys leave a node holding the attributes written by both and every
\* attribute stored before.
C11_ConcurrentMergeKeepsBoth ==
    \A p, q \in Procs : \A ident \in BatchIdentities(payloads[p]) :
        (/\ ConcurrentOn(p, q, ident)
         /\ Has(pre[p], ident)
         /\ KeysWritten(payloads[p], ident) \cap KeysWritten(payloads[q], ident) = {})
        => LET m == StoredMap(Committed, ident)
               old == StoredMap(pre[p], ident)
           IN  /\ \A r \in {p, q} : \A k \in KeysWritten(payloads[r], ident) :
                     k \in DOMAIN m /\ m[k] = ValueWritten(payloads[r], ident, k)
               /\ \A k \in DOMAIN old :
                     k \in DOMAIN m
                     /\ (k \notin KeysWritten(payloads[p], ident)
                                  \cup KeysWritten(payloads[q], ident) => m[k] = old[k])

\* The call of p and q that committed last.
LastCommitted(p, q) ==
    LET at(r) == CHOOSE i \in 1..Len(commitLog) : commitLog[i] = r
    IN  IF at(p) > at(q) THEN p ELSE q

\* C12: when two concurrent calls write the same key of the same node and
\* both commit, the key holds the value of the call that committed last.
C12_LastCommittedWins ==
    \A p, q \in Procs : \A ident \in BatchIdentities(payloads[p]) :
        ConcurrentOn(p, q, ident) =>
            \A k \in KeysWritten(payloads[p], ident) \cap KeysWritten(payloads[q], ident) :
                LET m == StoredMap(Committed, ident)
                IN  k \in DOMAIN m
                    /\ m[k] = ValueWritten(payloads[LastCommitted(p, q)], ident, k)

\* C12 witness: the two calls wrote different values under the key, and the
\* one that committed last had read the node before the other committed.
C12_Witness ==
    \E p, q \in Procs : \E ident \in BatchIdentities(payloads[p]) :
        /\ ConcurrentOn(p, q, ident)
        /\ LastCommitted(p, q) = q
        /\ ~Alone(q)
        /\ \E k \in KeysWritten(payloads[p], ident) \cap KeysWritten(payloads[q], ident) :
              /\ ValueWritten(payloads[p], ident, k) # ValueWritten(payloads[q], ident, k)
              /\ StoredMap(Committed, ident)[k] = ValueWritten(payloads[q], ident, k)

\* ------------------------------------------------ the root's component
\* Two local nodes joined by an edge row, in either direction.
Linked(db, x, y) ==
    \E i \in 1..Len(db.edges) :
        \/ db.edges[i].from_id = x /\ db.edges[i].to_id = y
        \/ db.edges[i].from_id = y /\ db.edges[i].to_id = x

\* The ids connected to a node of S by a path of edges.
RECURSIVE Component(_, _)
Component(db, S) ==
    LET N == S \cup {n \in NodeIds(db) : \E x \in S : Linked(db, x, n)}
    IN  IF N = S THEN S ELSE Component(db, N)

EdgeKey(e) == <<e.from_id, e.to_id, e.edge_type>>

\* The stored edges with both endpoints in S.
InnerEdges(db, S) ==
    {EdgeKey(db.edges[i]) : i \in {j \in 1..Len(db.edges) :
                                     db.edges[j].from_id \in S /\ db.edges[j].to_id \in S}}

\* The traversal of the current call is over.
Traversed == spc \in {"get", "put", "link"}

Finished(r) == r \in 1..Len(runs) /\ runs[r].outcome # "running"

\* The identities the operations op of a log completed on.
Done(log, op) == {log[i].arg : i \in {j \in 1..Len(log) : log[j].op = op /\ log[j].ok}}

RemoteIds(db, S) == {DocId(NodeOfId(db, id).node_type, NodeOfId(db, id).lookup_key) : id \in S}

\* C13: the nodes store_subgraph collects, and upserts when it returns, are
\* exactly the nodes connected to the root by edges followed in either
\* direction; the distinct edges it collects are exactly the stored edges with
\* both endpoints among them.
C13_CollectsComponent ==
    /\ Traversed =>
          LET comp == Component(Committed, {root.id})
          IN  /\ {bfs_nodes[i].id : i \in 1..Len(bfs_nodes)} = comp
              /\ \A i \in 1..Len(bfs_nodes) :
                    bfs_nodes[i] = RowDict(NodeOfId(Committed, bfs_nodes[i].id))
              /\ {EdgeKey(bfs_edges[i]) : i \in 1..Len(bfs_edges)}
                    = InnerEdges(Committed, comp)
    /\ \A r \in 1..Len(runs) :
          runs[r].outcome = "ok" =>
              LET comp == Component(Committed, {runs[r].root})
              IN  /\ runs[r].mapped = comp
                  /\ Done(runs[r].log, "create") \cup Done(runs[r].log, "update")
                        = RemoteIds(Committed, comp)

\* C13 witness: a call returned for a root whose component has three nodes,
\* one of them reached against the direction of its edge, while the store
\* holds a node outside the component.
C13_Witness ==
    \E r \in 1..Len(runs) :
        /\ runs[r].outcome = "ok"
        /\ Cardinality(Component(Committed, {runs[r].root})) = 3
        /\ NodeIds(Committed) \ Component(Committed, {runs[r].root}) # {}
        /\ \E i \in 1..Len(edges) :
              /\ edges[i].to_id = runs[r].root
              /\ \A j \in 1..Len(edges) : edges[j].from_id = runs[r].root
                                           => edges[j].to_id # edges[i].from_id

\* How many times a log holds operation op on arg.
Count(log, op, arg) ==
    Cardinality({i \in 1..Len(log) : log[i].op = op /\ log[i].arg = arg})

\* Each node's row is fetched, and its edges scanned, at most once; when the
\* traversal is over, exactly once for each node of the component.
VisitedOnce(log, rootId, over) ==
    /\ \A id \in NodeIds(Committed) :
          Count(log, "fetch", id) <= 1 /\ Count(log, "scan", id) <= 1
    /\ over => \A id \in Component(Committed, {rootId}) :
                   Count(log, "fetch", id) = 1 /\ Count(log, "scan", id) = 1

\* C14: the traversal ends on every local graph (cycles, self-loops, several
\* edges between two nodes), and fetches each reachable node's row and scans
\* its incident edges exactly once.
C14_TraversalTerminates ==
    /\ [](/\ spc # "idle" => VisitedOnce(rlog, root.id, Traversed)
          /\ \A r \in 1..Len(runs) :
                runs[r].outcome \in {"ok", "remote_error"}
                    => VisitedOnce(runs[r].log, runs[r].root, TRUE))
    /\ (spc \in {"bfs", "scan"}) ~> Traversed

\* C14 witness: a traversal is over on a component of three nodes with a
\* cycle and two edges between the same pair, where an id was queued more
\* often than visited.
C14_Witness ==
    /\ Traversed
    /\ Cardinality(Component(Committed, {root.id})) = 3
    /\ \E i, j \in 1..Len(edges) :
          /\ i # j
          /\ edges[i].from_id = edges[j].from_id /\ edges[i].to_id = edges[j].to_id
          /\ \E k \in 1..Len(edges) : edges[k].from_id = edges[i].to_id
                                       /\ edges[k].to_id = edges[i].from_id
    /\ Len(bfs_edges) > Cardinality(InnerEdges(Committed, Component(Committed, {root.id})))

\* The entries of a log for operation op.
Calls(log, op) == {i \in 1..Len(log) : log[i].op = op}

NoRepeat(s) == \A i, j \in 1..Len(s) : s[i] = s[j] => i = j

\* No batched link call of the log holds a (from, to) pair twice.
NoDuplicatePairs(log) == \A i \in Calls(log, "link") : NoRepeat(log[i].arg[2])

\* Two successive calls for the same root that both returned.
Rerun(r) ==
    /\ r \in 1..(Len(runs) - 1)
    /\ runs[r].outcome = "ok" /\ runs[r + 1].outcome = "ok"
    /\ runs[r].lookup_key = runs[r + 1].lookup_key

\* None of the component's nodes has a remote context yet.
FirstExport(r) ==
    \A id \in Component(Committed, {runs[r].root}) :
        CtxGet(runs[r].before, DocId(NodeOfId(Committed, id).node_type,
                                     NodeOfId(Committed, id).lookup_key)) = {}

\* C15: a second store_subgraph call for the same root, with no local change,
\* leaves the remote nodes and links of the first; the first call creates the
\* N nodes of the component, the second creates none and updates N, and no
\* link call of either holds a pair twice.
C15_RerunIsIdempotent ==
    \A r \in 1..Len(runs) :
        Rerun(r) =>
            LET n == Cardinality(Component(Committed, {runs[r].root}))
            IN  /\ runs[r + 1].after = runs[r].after
                /\ FirstExport(r) => /\ Cardinality(Calls(runs[r].log, "create")) = n
                                     /\ Calls(runs[r].log, "update") = {}
                /\ Calls(runs[r + 1].log, "create") = {}
                /\ Cardinality(Calls(runs[r + 1].log, "update")) = n
                /\ NoDuplicatePairs(runs[r].log)
                /\ NoDuplicatePairs(runs[r + 1].log)

\* C15 witness: both calls exported a component of three nodes whose edges
\* were collected from both endpoints.
C15_Witness ==
    \E r \in 1..Len(runs) :
        /\ Rerun(r)
        /\ FirstExport(r)
        /\ Cardinality(Component(Committed, {runs[r].root})) = 3
        /\ Len(runs[r].edges) > Cardinality(SeqToSet(runs[r].edges))
        /\ Cardinality(Calls(runs[r + 1].log, "link")) = 2

\* The remote links the edges of the root's component map to.
ComponentLinks(db, rootId) ==
    {<<db.edges[i].edge_type,
       DocId(NodeOfId(db, db.edges[i].from_id).node_type,
             NodeOfId(db, db.edges[i].from_id).lookup_key),
       DocId(NodeOfId(db, db.edges[i].to_id).node_type,
             NodeOfId(db, db.edges[i].to_id).lookup_key)>>
        : i \in {j \in 1..Len(db.edges) :
                    db.edges[j].from_id \in Component(db, {rootId})}}

\* Call r upserted every node of the component and then failed at its first
\* batched link.
FailedBeforeLinks(r) ==
    /\ r \in 1..Len(runs)
    /\ runs[r].outcome = "remote_error"
    /\ runs[r].mapped = Component(Committed, {runs[r].root})
    /\ Done(runs[r].log, "link") = {}
    /\ runs[r].log[Len(runs[r].log)].op = "link"

\* Call r returned and none of its remote operations failed.
Healthy(r) ==
    /\ r \in 1..Len(runs)
    /\ runs[r].outcome = "ok"
    /\ \A i \in 1..Len(runs[r].log) : runs[r].log[i].ok

\* C16: after a call that failed at the remote once every node was written
\* and before any edge was linked, a later call for the same root on a healthy
\* remote links every edge of the component and creates no node: each node is
\* found and updated.
C16_RerunAfterFailureConverges ==
    \A r, r2 \in 1..Len(runs) :
        (/\ r < r2
         /\ FailedBeforeLinks(r)
         /\ Healthy(r2)
         /\ runs[r].lookup_key = runs[r2].lookup_key)
        => LET comp == Component(Committed, {runs[r2].root})
           IN  /\ Calls(runs[r2].log, "create") = {}
               /\ Done(runs[r2].log, "update") = RemoteIds(Committed, comp)
               /\ Cardinality(Calls(runs[r2].log, "update")) = Cardinality(comp)
               /\ ComponentLinks(Committed, runs[r2].root) \subseteq runs[r2].after.links
               /\ \A l \in ComponentLinks(Committed, runs[r2].root) :
                     \E i \in Calls(runs[r2].log, "link") :
                         /\ runs[r2].log[i].arg[1] = l[1]
                         /\ <<l[2], l[3]>> \in SeqToSet(runs[r2].log[i].arg[2])

\* C16 witness: such a pair of calls on a component with edges of two types,
\* none of which was linked when the second call began.
C16_Witness ==
    \E r, r2 \in 1..Len(runs) :
        /\ r < r2
        /\ FailedBeforeLinks(r)
        /\ Healthy(r2)
        /\ runs[r].lookup_key = runs[r2].lookup_key
        /\ Cardinality({l[1] : l \in ComponentLinks(Committed, runs[r2].root)}) = 2
        /\ runs[r2].before.links = {}
        /\ Cardinality(runs[r2].before.contexts) = 3

\* The attribute map a dict denotes.
DictMap(d) == [k \in DictKeys(d) |-> GetVal(d, k)]

\* Remote context c carries the data of local node n.
Carries(c, n) ==
    LET local == DataMap(n.data)
        attrs == DictMap(c.attributes)
    IN  \A k \in DOMAIN local : k \in DOMAIN attrs /\ attrs[k] = local[k]

\* The remote store r projects the component of rootId.
Projects(r, db, rootId) ==
    /\ \A id \in Component(db, {rootId}) :
          LET n == NodeOfId(db, id)
              hit == CtxGet(r, DocId(n.node_type, n.lookup_key))
          IN  /\ Cardinality(hit) = 1
              /\ \A c \in hit : c.node_type = n.node_type /\ c.name = n.lookup_key
                                /\ Carries(c, n)
    /\ ComponentLinks(db, rootId) \subseteq r.links

\* C17: after a call that returns, the remote store holds, for every node of
\* the root's component, one context under the identity of its
\* (node_type, lookup_key) carrying the node's data, and for every edge of the
\* component the link of its edge_type between the two mapped identities.
C17_RemoteProjectsComponent ==
    \A r \in 1..Len(runs) :
        runs[r].outcome = "ok" => Projects(runs[r].after, Committed, runs[r].root)

\* C17 witness: a returned call for a component of three nodes with data,
\* whose edges have two types and both directions.
C17_Witness ==
    \E r \in 1..Len(runs) :
        /\ runs[r].outcome = "ok"
        /\ Cardinality(Component(Committed, {runs[r].root})) = 3
        /\ \A id \in Component(Committed, {runs[r].root}) :
              NodeOfId(Committed, id).data # <<>>
        /\ \E l, k \in ComponentLinks(Committed, runs[r].root) :
              l[1] # k[1] /\ l[2] = k[3] /\ l[3] = k[2]

\* The (remote_from, remote_to) pairs of the collected edges es of type t.
PairsOfType(db, es, t) ==
    {<<DocId(NodeOfId(db, es[i].from_id).node_type, NodeOfId(db, es[i].from_id).lookup_key),
       DocId(NodeOfId(db, es[i].to_id).node_type, NodeOfId(db, es[i].to_id).lookup_key)>>
        : i \in {j \in 1..Len(es) : es[j].edge_type = t}}

\* The link calls of a log: at most one per edge_type, each holding every
\* pair of its type exactly once; over == the call has returned, and then
\* every edge_type has its call.
LinkCalls(log, es, over) ==
    /\ \A i, j \in Calls(log, "link") : log[i].arg[1] = log[j].arg[1] => i = j
    /\ \A i \in Calls(log, "link") :
          /\ NoRepeat(log[i].arg[2])
          /\ SeqToSet(log[i].arg[2]) = PairsOfType(Committed, es, log[i].arg[1])
    /\ over => {log[i].arg[1] : i \in Calls(log, "link")}
                  = {es[i].edge_type : i \in 1..Len(es)}

\* C18: a call issues one batched link call per edge_type among the collected
\* edges, and the list of each call holds every mapped (remote_from,
\* remote_to) pair of that type exactly once, although each edge is collected
\* from both of its endpoints.
C18_OneLinkCallPerType ==
    /\ spc # "idle" => LinkCalls(rlog, bfs_edges, FALSE)
    /\ \A r \in 1..Len(runs) :
          runs[r].outcome \in {"ok", "remote_error"}
              => LinkCalls(runs[r].log, runs[r].edges, runs[r].outcome = "ok")

\* C18 witness: a returned call that collected edges of two types, each edge
\* twice, and issued two link calls.
C18_Witness ==
    \E r \in 1..Len(runs) :
        /\ runs[r].outcome = "ok"
        /\ Cardinality(Calls(runs[r].log, "link")) = 2
        /\ \A i \in 1..Len(runs[r].edges) :
              \E j \in 1..Len(runs[r].edges) : i # j /\ runs[r].edges[i] = runs[r].edges[j]
        /\ \E i \in Calls(runs[r].log, "link") : Len(runs[r].log[i].arg[2]) = 2

\* No operation follows a failed one in the log.
StopsAtFailure(log) == \A i \in 1..Len(log) : ~log[i].ok => i = Len(log)

\* C19: when a remote operation of store_subgraph fails (fetch-by-identity,
\* create, update or batched link), the call stops at that operation, issues
\* no further remote write, and the failure reaches the caller.
C19_RemoteFailureStopsRun ==
    /\ StopsAtFailure(rlog)
    /\ \A r \in 1..Len(runs) :
          /\ StopsAtFailure(runs[r].log)
          /\ (runs[r].outcome # "running" /\ \E i \in 1..Len(runs[r].log) : ~runs[r].log[i].ok)
                => runs[r].outcome = "remote_error"

Failed(r) == r \in 1..Len(runs) /\ runs[r].outcome \in {"not_found", "remote_error"}

CtxIds(rem) == {DocId(c.node_type, c.key) : c \in rem.contexts}

\* The links the completed link calls of a log wrote.
LinksDone(log) ==
    UNION {{<<log[i].arg[1], p[1], p[2]>> : p \in SeqToSet(log[i].arg[2])}
              : i \in {j \in Calls(log, "link") : log[j].ok}}

\* C20 as stated: after a call that fails, the remote store is in the state
\* it had before the call.
C20_AsStated ==
    \A r \in 1..Len(runs) : Failed(r) => runs[r].after = runs[r].before

\* C20 amended: after a call that fails, the remote store holds its state
\* from before the call changed by exactly the writes the call completed
\* before the failing operation; it is the state from before when the call
\* completed no write.
C20_FailedCallKeepsProgress ==
    \A r \in 1..Len(runs) :
        Failed(r) =>
            LET log == runs[r].log
                b == runs[r].before
                a == runs[r].after
            IN  /\ (Done(log, "create") \cup Done(log, "update") = {} /\ LinksDone(log) = {})
                      => a = b
                /\ CtxIds(a) = CtxIds(b) \cup Done(log, "create")
                /\ \A c \in b.contexts :
                      DocId(c.node_type, c.key) \notin Done(log, "update") => c \in a.contexts
                /\ a.links = b.links \cup LinksDone(log)

\* C20 witness: a call failed at its second link call, after it had created
\* three contexts and written one batch of links.
C20_Witness ==
    \E r \in 1..Len(runs) :
        /\ Failed(r)
        /\ Cardinality(Done(runs[r].log, "create")) = 3
        /\ LinksDone(runs[r].log) # {}
        /\ runs[r].after # runs[r].before

\* ---------------------------------------------------------------- C21
\* C21: store_subgraph only reads the staging store: no step of a call,
\* whether the call ends with success, with the root not found or with a
\* remote failure, changes the node table or the edge table.
C21_LocalStoreUntouched == [][sync' # sync => (nodes' = nodes /\ edges' = edges)]_vars

\* C21 witness: over a staging store with edges, one call has returned and
\* another has ended with a remote failure.
C21_Witness ==
    /\ edges # <<>>
    /\ \E r1, r2 \in 1..Len(runs) :
          /\ runs[r1].outcome = "ok"
          /\ runs[r1].edges # <<>>
          /\ runs[r2].outcome = "remote_error"

\* ---------------------------------------------------------------- C22
\* The staging store holds no node with the lookup_key of call r.
RootMissing(r) == \A n \in nodes : n.lookup_key # runs[r].lookup_key

\* C22: a call whose lookup_key matches no local node ends with the
\* not-found error before any fetch, create, update or link: it has made no
\* call at all, the remote store is as before, and nothing is retried; a call
\* in progress always has a root.
C22_RootNotFoundBeforeRemote ==
    /\ \A r \in 1..Len(runs) :
          RootMissing(r) =>
              /\ runs[r].outcome = "not_found"
              /\ runs[r].log = <<>>
              /\ runs[r].after = runs[r].before
              /\ runs[r].root = None
              /\ runs[r].nodes = <<>> /\ runs[r].mapped = {}
    /\ \A r \in 1..Len(runs) : runs[r].outcome = "not_found" => RootMissing(r)
    /\ spc # "idle" => ~RootMissing(run)

\* C22 witness: after a call that exported three nodes, a call with an
\* unknown lookup_key has ended with the not-found error.
C22_Witness ==
    /\ Len(runs) = 2
    /\ runs[1].outcome = "ok" /\ Cardinality(runs[1].after.contexts) = 3
    /\ RootMissing(2)
    /\ runs[2].outcome = "not_found"
    /\ spc = "idle"

\* ---------------------------------------------------------------- C27
\* The number of pairs over all groups of links_by_rel.
RECURSIVE PairCount(_)
PairCount(groups) ==
    IF groups = <<>> THEN 0 ELSE Len(Head(groups).edges) + PairCount(Tail(groups))

\* The identities a log created or updated.
Upserted(log) == Done(log, "create") \cup Done(log, "update")

\* C27: once the traversal and the node upserts of a call are over, both
\* endpoints of every collected edge are keys of sql_to_ctx, so the loop of
\* lines 120-135 drops no edge, and every pair handed to a link call joins
\* two nodes the same call created or updated.
C27_EveryEdgeMapped ==
    /\ spc = "link" =>
          /\ \A i \in 1..Len(bfs_edges) :
                /\ bfs_edges[i].from_id \in DOMAIN sql_to_ctx
                /\ bfs_edges[i].to_id \in DOMAIN sql_to_ctx
          /\ PairCount(links_by_rel) = Len(bfs_edges)
          /\ \A g \in 1..Len(links_by_rel) :
                \A k \in 1..Len(links_by_rel[g].edges) :
                    /\ links_by_rel[g].edges[k][1] \in Upserted(rlog)
                    /\ links_by_rel[g].edges[k][2] \in Upserted(rlog)
    /\ \A r \in 1..Len(runs) :
          \A i \in Calls(runs[r].log, "link") :
              \A k \in 1..Len(runs[r].log[i].arg[2]) :
                  /\ runs[r].log[i].arg[2][k][1] \in Upserted(runs[r].log)
                  /\ runs[r].log[i].arg[2][k][2] \in Upserted(runs[r].log)

\* C27 witness: a call that collected edges in both directions between three
\* nodes, some of them read twice, has upserted the nodes and grouped every
\* edge.
C27_Witness ==
    /\ spc = "link"
    /\ Len(bfs_nodes) = 3
    /\ Len(bfs_edges) > 3
    /\ PairCount(links_by_rel) = Len(bfs_edges)
    /\ \E i \in 1..Len(bfs_edges) : bfs_edges[i].to_id = root.id
    /\ \E i \in 1..Len(bfs_edges) : bfs_edges[i].from_id = root.id

\* ---------------------------------------------------------------- C24
\* Row m is row n with at most data and updated_at changed.
SameButData(n, m) ==
    /\ m.id = n.id
    /\ m.node_type = n.node_type
    /\ m.lookup_key = n.lookup_key
    /\ m.sub_type = n.sub_type
    /\ m.created_at = n.created_at

\* Every node of store a is in store b, changed at most in data and
\* updated_at, and every edge row of a is in b at its place.
KeepsRows(a, b) ==
    /\ \A n \in a.nodes : \E m \in b.nodes : SameButData(n, m)
    /\ Len(a.edges) <= Len(b.edges)
    /\ \A i \in 1..Len(a.edges) : b.edges[i] = a.edges[i]

\* Payload i of call p matches the stored node n and names another sub_type.
Retypes(p, i, n) ==
    /\ Identity(payloads[p][i]) = Identity(n)
    /\ payloads[p][i].sub_type # n.sub_type

\* C24: a payload that matches a stored node changes only the node's data
\* and updated_at: its id, its sub_type (also when the payload names another
\* one) and its created_at are kept, so the stored edges go on referencing it.
C24_MatchKeepsRow ==
    \A p \in Procs :
        Ok(p) =>
            /\ KeepsRows(pre[p], post[p])
            /\ KeepsRows(base[p], post[p])

\* C24 witness: a call has merged new data into a stored node that edges
\* reference, with a payload naming another sub_type.
C24_Witness ==
    \E p \in Procs :
        /\ Ok(p)
        /\ \E i \in 1..Len(payloads[p]) : \E n \in pre[p].nodes :
              /\ Retypes(p, i, n)
              /\ \E m \in post[p].nodes : SameButData(n, m) /\ m.data # n.data
              /\ \E k \in 1..Len(pre[p].edges) : pre[p].edges[k].to_id = n.id

\* ---------------------------------------------------------------- C25
\* Payload i of call p carries attributes store db holds for its node, all
\* of them or some, with the stored values.
Resubmits(db, p, i) ==
    LET ident == Identity(payloads[p][i])
        inc == PayloadMap(payloads[p][i])
    IN  /\ Has(db, ident)
        /\ DOMAIN inc \subseteq DOMAIN StoredMap(db, ident)
        /\ \A k \in DOMAIN inc : inc[k] = StoredMap(db, ident)[k]

\* C25: updated_at of a node moves only in a call that changes the node's
\* stored data: a node whose data a call leaves as it was (an exact
\* re-submission, or a subset of the stored attributes with equal values)
\* keeps its updated_at.
C25_UpdatedAtOnlyOnChange ==
    \A p \in Procs :
        Ok(p) =>
            \A n \in base[p].nodes : \A m \in post[p].nodes :
                (m.id = n.id /\ DataMap(m.data) = DataMap(n.data))
                    => m.updated_at = n.updated_at

\* C25 witness: a call made after the clock moved created one node then and
\* re-submitted the stored attributes of another, whose updated_at is still
\* the earlier time.
C25_Witness ==
    \E p \in Procs :
        /\ Ok(p)
        /\ \E i \in 1..Len(payloads[p]) :
              /\ Resubmits(base[p], p, i)
              /\ NodeOf(post[p], Identity(payloads[p][i])).updated_at = 0
        /\ \E m \in post[p].nodes : m.created_at = 1 /\ m.id \notin NodeIds(base[p])

\* ---------------------------------------------------------------- C26
\* Edge row r of store db stands for the declared edge d.
RowOf(db, r, d) ==
    /\ Has(db, d.from) /\ Has(db, d.to)
    /\ r.from_id = IdOf(db, d.from)
    /\ r.to_id = IdOf(db, d.to)
    /\ r.edge_type = d.edge_type

\* C26: an edge skipped because its target was not stored is not created
\* when a later batch stores the target without declaring the edge: the edge
\* rows a call adds all stand for edges its own batch declares, so a batch that
\* declares none adds none; the row appears in a call that declares the edge
\* with both endpoints stored.
C26_SkippedEdgeNeedsRedeclaration ==
    \A p \in Procs :
        Ok(p) =>
            /\ \A r \in RowsOfStore(post[p]) \ RowsOfStore(base[p]) :
                  \E d \in DeclaredEdges(payloads[p]) : RowOf(post[p], r, d)
            /\ DeclaredEdges(payloads[p]) = {} => post[p].edges = base[p].edges
            /\ \A d \in DeclaredEdges(payloads[p]) :
                  (Has(post[p], d.from) /\ Has(post[p], d.to))
                      => \E r \in RowsOfStore(post[p]) : RowOf(post[p], r, d)

\* C26 witness: the store held (Org, b), whose batch declared edges to the
\* missing (Org, a); a batch then stored (Org, a) declaring no edge and left
\* the edge table empty; a later batch declared the edges of (Org, b) again
\* and their rows are stored.
C26_Witness ==
    \E p, q \in Procs :
        /\ Ok(p) /\ Ok(q) /\ p \in doneBefore[q]
        /\ Has(pre[p], <<"Org", "b">>) /\ ~Has(pre[p], <<"Org", "a">>)
        /\ pre[p].edges = <<>>
        /\ payloads[p] = <<PlA1>>
        /\ Has(post[p], <<"Org", "a">>) /\ post[p].edges = <<>>
        /\ payloads[q] = <<PlB1>>
        /\ \E r \in RowsOfStore(post[q]) :
              /\ r.from_id = IdOf(post[q], <<"Org", "b">>)
              /\ r.to_id = IdOf(post[q], <<"Org", "a">>)

\* ---------------------------------------------------------------- C29
\* C29: the root store_subgraph(lookup_key) starts from is uniquely
\* determined: in every state upsert_payloads can reach, at most one stored
\* node matches the root lookup of a lookup_key.
C29_RootLookupUnique ==
    \A lk \in RootKeys : Cardinality(SelectRoot(Committed, lk)) <= 1

\* ---------------------------------------------------------------- C28
\* C28: for every retry count, 0 included, each write of a call is executed
\* or ends in an error: a call that returned executed the node statement of
\* every payload, so every node of its batch is stored.
C28_NoWriteSkipped ==
    \A p \in Procs :
        Ok(p) =>
            /\ Len(wlog[p]) >= Len(payloads[p])
            /\ \A ident \in BatchIdentities(payloads[p]) : Has(post[p], ident)

\* ---------------------------------------------------------------- C30
\* The states the staging store was committed in since the writer's call
\* began: the one before its commit and the current one.
Snapshots == {Committed} \cup (IF pc[1] # "idle" THEN {pre[1]} ELSE {})

\* What the traversal collected is the root's component in store db.
CollectedFrom(db) ==
    /\ root.id \in NodeIds(db)
    /\ {bfs_nodes[i].id : i \in 1..Len(bfs_nodes)} = Component(db, {root.id})
    /\ \A i \in 1..Len(bfs_nodes) : bfs_nodes[i] = RowDict(NodeOfId(db, bfs_nodes[i].id))
    /\ {EdgeKey(bfs_edges[i]) : i \in 1..Len(bfs_edges)}
          = InnerEdges(db, Component(db, {root.id}))

\* C30: when upsert_payloads commits while store_subgraph is traversing, the
\* nodes and edges the traversal collects are the root's component in one
\* committed state of the staging store, never a mixture of two.
C30_TraversalSeesOneState ==
    Traversed => \E db \in Snapshots : CollectedFrom(db)

\* ---------------------------------------------------------------- C23
\* C23: every remote connection opened by constructing a
\* GraphStorageHandler is closed on every exit path of the caller: no step
\* ends, by returning or by raising, with its client open.
C23_ClientClosedOnExit ==
    \A i \in 1..Len(exits) : exits[i].client # "open"

====
